---------------------------- MODULE Spec2Model ----------------------------
(***************************************************************************)
(* A model of the MindfulMe backend (src/backend/server.py): the crisis    *)
(* detector, the conversation turn (send_message / get_ai_response), the   *)
(* knowledge-graph store and extraction pipeline, and the streak tracker.  *)
(* Text is modelled as strings; the store's collections as sequences of    *)
(* documents in insertion order.                                           *)
(***************************************************************************)
EXTENDS Integers, Sequences, FiniteSets, TLC

\* ------------------------------------------------------------------------
\* Text helpers (the str operations the code uses)
\* ------------------------------------------------------------------------

UPPERCASE == "ABCDEFGHIJKLMNOPQRSTUVWXYZ"

LOWERCASE == "abcdefghijklmnopqrstuvwxyz"

DIGITS == "0123456789"

\* c is a one-character string occurring in the string s
CharIn(c, s) == \E i \in 1..Len(s) : SubSeq(s, i, i) = c

\* str.lower() of a single character
LowerChar(c) ==
    IF CharIn(c, UPPERCASE)
    THEN LET i == CHOOSE j \in 1..Len(UPPERCASE) : SubSeq(UPPERCASE, j, j) = c
         IN  SubSeq(LOWERCASE, i, i)
    ELSE c

RECURSIVE Lower(_)
\* str.lower(): every character lower-cased, the others kept
Lower(s) ==
    IF Len(s) = 0 THEN ""
    ELSE IF Len(s) = 1 THEN LowerChar(s)
    ELSE LET h == Len(s) \div 2
         IN  Lower(SubSeq(s, 1, h)) \o Lower(SubSeq(s, h + 1, Len(s)))

\* Python's  kw in s  on strings: kw is a contiguous substring of s
Contains(s, kw) ==
    \E i \in 1..(Len(s) - Len(kw) + 1) : SubSeq(s, i, i + Len(kw) - 1) = kw

\* Python's  s[:n]
Prefix(s, n) == IF Len(s) <= n THEN s ELSE SubSeq(s, 1, n)

RECURSIVE Repeat(_, _)
\* s * n
Repeat(s, n) == IF n = 0 THEN "" ELSE s \o Repeat(s, n - 1)

\* ------------------------------------------------------------------------
\* Crisis detection
\* ------------------------------------------------------------------------

CRISIS_KEYWORDS ==
    [ high_risk |->
        << "suicide", "kill myself", "end my life", "want to die", "better off dead",
           "no reason to live", "ending it", "goodbye everyone", "final goodbye",
           "self harm", "hurt myself", "cutting myself", "overdose",
           "kill her", "kill him", "kill them", "murder" >>,
      medium_risk |->
        << "worthless", "hopeless", "nobody cares", "no one would miss me",
           "tired of living", "cant go on", "can't take it anymore", "give up",
           "hate myself", "dont want to be here", "don't want to wake up",
           "never be happy", "pointless", "burden to everyone" >>,
      low_risk |->
        << "depressed", "anxious", "overwhelmed", "stressed out", "struggling",
           "feeling down", "cant cope", "falling apart", "losing it" >> ]

\* the result dict detect_crisis_level starts from
CrisisResultInit ==
    [ level |-> "none", matched_keywords |-> << >>,
      requires_intervention |-> FALSE, show_resources |-> FALSE ]

\* the body of one  for keyword in tier  loop iteration, per tier
CrisisHit(result, tier, keyword) ==
    IF tier = "high_risk"
    THEN [ result EXCEPT !.level = "high",
                         !.matched_keywords = Append(@, keyword),
                         !.requires_intervention = TRUE,
                         !.show_resources = TRUE ]
    ELSE IF tier = "medium_risk"
    THEN [ result EXCEPT !.level = "medium",
                         !.matched_keywords = Append(@, keyword),
                         !.show_resources = TRUE ]
    ELSE [ result EXCEPT !.level = "low",
                         !.matched_keywords = Append(@, keyword) ]

RECURSIVE ScanTier(_, _, _, _)
\* the loop  for keyword in CRISIS_KEYWORDS[tier]: if keyword in message_lower: ...
\* from list position i on
ScanTier(result, tier, message_lower, i) ==
    IF i > Len(CRISIS_KEYWORDS[tier]) THEN result
    ELSE LET keyword == CRISIS_KEYWORDS[tier][i]
             next == IF Contains(message_lower, keyword)
                     THEN CrisisHit(result, tier, keyword)
                     ELSE result
         IN  ScanTier(next, tier, message_lower, i + 1)

\* a variant that stops at the first high-risk hit only if no lower tier hits
detect_crisis_level_lowest_wins(message) ==
    LET message_lower == Lower(message)
        h == ScanTier(CrisisResultInit, "high_risk", message_lower, 1)
        m == ScanTier(CrisisResultInit, "medium_risk", message_lower, 1)
        l == ScanTier(CrisisResultInit, "low_risk", message_lower, 1)
    IN  IF l.level = "low" THEN l
        ELSE IF m.level = "medium" THEN m
        ELSE h

\* a variant that falls through after a tier matched, scanning the next tier
\* into the same result
detect_crisis_level_fallthrough(message) ==
    LET message_lower == Lower(message)
        afterHigh == ScanTier(CrisisResultInit, "high_risk", message_lower, 1)
        afterMedium == ScanTier(afterHigh, "medium_risk", message_lower, 1)
    IN  ScanTier(afterMedium, "low_risk", message_lower, 1)

detect_crisis_level(message) ==
    LET message_lower == Lower(message)
        afterHigh == ScanTier(CrisisResultInit, "high_risk", message_lower, 1)
        afterMedium == ScanTier(afterHigh, "medium_risk", message_lower, 1)
    IN  IF afterHigh.level = "high" THEN afterHigh
        ELSE IF afterMedium.level = "medium" THEN afterMedium
        ELSE ScanTier(afterMedium, "low_risk", message_lower, 1)


\* ------------------------------------------------------------------------
\* Extraction rules (the regular expressions of extract_knowledge_from_message)
\* ------------------------------------------------------------------------

\* s[i] as a one-character string (1-based)
At(s, i) == SubSeq(s, i, i)

IsUpper(c) == CharIn(c, UPPERCASE)

IsLower(c) == CharIn(c, LOWERCASE)

\* \w
IsWord(c) == IsUpper(c) \/ IsLower(c) \/ CharIn(c, DIGITS) \/ c = "_"

\* \s
IsSpace(c) == c \in { " ", "\t", "\n", "\r" }

\* \b just before position i, where s[i] is a word character
BoundaryBefore(s, i) == i = 1 \/ ~IsWord(At(s, i - 1))

\* \b just after position e, where s[e] is a word character
BoundaryAfter(s, e) == e = Len(s) \/ ~IsWord(At(s, e + 1))

RECURSIVE LowerRunEnd(_, _)
\* the last position of the run of [a-z] starting at j (j - 1 if there is none)
LowerRunEnd(s, j) ==
    IF j <= Len(s) /\ IsLower(At(s, j)) THEN LowerRunEnd(s, j + 1) ELSE j - 1

RECURSIVE SpaceRunEnd(_, _)
\* the last position of the run of \s starting at j (j - 1 if there is none)
SpaceRunEnd(s, j) ==
    IF j <= Len(s) /\ IsSpace(At(s, j)) THEN SpaceRunEnd(s, j + 1) ELSE j - 1

RECURSIVE WordRunEnd(_, _)
\* the last position of the run of \w starting at j (j - 1 if there is none)
WordRunEnd(s, j) ==
    IF j <= Len(s) /\ IsWord(At(s, j)) THEN WordRunEnd(s, j + 1) ELSE j - 1

\* [A-Z][a-z]+ at position i: the position of its last letter, 0 if no match
CapWordEnd(s, i) ==
    IF i <= Len(s) /\ IsUpper(At(s, i)) /\ LowerRunEnd(s, i + 1) >= i + 1
    THEN LowerRunEnd(s, i + 1)
    ELSE 0

RECURSIVE ChainEnd(_, _)
\* (?:\s+[A-Z][a-z]+)*\b after a capitalized word ending at e: the end of the
\* longest continuation that ends at a word boundary (greedy, backtracking to
\* fewer repetitions), 0 if even zero repetitions end at no boundary
ChainEnd(s, e) ==
    LET sp == SpaceRunEnd(s, e + 1)
        e2 == IF sp >= e + 1 THEN CapWordEnd(s, sp + 1) ELSE 0
        further == IF e2 > 0 THEN ChainEnd(s, e2) ELSE 0
    IN  IF further > 0 THEN further
        ELSE IF BoundaryAfter(s, e) THEN e
        ELSE 0

\* the end of a match of \b[A-Z][a-z]+(?:\s+[A-Z][a-z]+)*\b at position i, or 0
PersonMatchEnd(s, i) ==
    IF BoundaryBefore(s, i) /\ CapWordEnd(s, i) > 0
    THEN ChainEnd(s, CapWordEnd(s, i))
    ELSE 0

\* the least element of a non-empty set of integers
MinOf(S) == CHOOSE j \in S : \A k \in S : j <= k

RECURSIVE FindPeople(_, _)
\* re.findall of the person pattern from position i on: the leftmost match,
\* then the matches after its end (non-overlapping, left to right)
FindPeople(s, i) ==
    LET starts == { j \in i..Len(s) : PersonMatchEnd(s, j) > 0 }
    IN  IF starts = { } THEN << >>
        ELSE LET j == MinOf(starts)
                 e == PersonMatchEnd(s, j)
             IN  << SubSeq(s, j, e) >> \o FindPeople(s, e + 1)

\* len(p.split()): the number of maximal runs of non-whitespace
SplitCount(p) ==
    Cardinality({ i \in 1..Len(p) :
                    ~IsSpace(At(p, i)) /\ (i = 1 \/ IsSpace(At(p, i - 1))) })

PERSON_STOPWORDS == { "I", "My", "The", "This", "That" }

\* the people list after the filter of line 303
People(user_message) ==
    SelectSeq(FindPeople(user_message, 1),
              LAMBDA p : SplitCount(p) <= 3 /\ p \notin PERSON_STOPWORDS)

EMOTIONS ==
    << "happy", "sad", "angry", "excited", "anxious", "calm", "frustrated",
       "grateful", "worried", "content" >>

\* found_emotions: the vocabulary words contained in the lower-cased message,
\* in vocabulary order
FoundEmotions(user_message) ==
    SelectSeq(EMOTIONS, LAMBDA e : Contains(Lower(user_message), e))

\* the literal heads of the activity patterns  r'<head>(\w+)'
ACTIVITY_PATTERNS == << "went to ", "had ", "did ", "played ", "watched " >>

\* head(\w+) matches at position i: the end of the captured group, or 0
ActivityMatchEnd(head, s, i) ==
    LET j == i + Len(head)
    IN  IF j <= Len(s) /\ SubSeq(s, i, j - 1) = head /\ IsWord(At(s, j))
        THEN WordRunEnd(s, j)
        ELSE 0

RECURSIVE FindActivity(_, _, _)
\* re.findall(head + r'(\w+)', s) from position i on: the captured groups of
\* the leftmost match and of the matches after its end
FindActivity(head, s, i) ==
    LET starts == { j \in i..Len(s) : ActivityMatchEnd(head, s, j) > 0 }
    IN  IF starts = { } THEN << >>
        ELSE LET j == MinOf(starts)
                 e == ActivityMatchEnd(head, s, j)
             IN  << SubSeq(s, j + Len(head), e) >> \o FindActivity(head, s, e + 1)

RECURSIVE ActivitiesFrom(_, _)
\* the loop over activity_patterns, extending the activities list
ActivitiesFrom(user_message, k) ==
    IF k > Len(ACTIVITY_PATTERNS) THEN << >>
    ELSE FindActivity(ACTIVITY_PATTERNS[k], Lower(user_message), 1)
            \o ActivitiesFrom(user_message, k + 1)

Activities(user_message) == ActivitiesFrom(user_message, 1)

\* the caps of the three storing loops
PEOPLE_CAP == 3

EMOTIONS_CAP == 2

ACTIVITIES_CAP == 2

\* lst[:n] on a list
Take(lst, n) == IF Len(lst) <= n THEN lst ELSE SubSeq(lst, 1, n)

\* [ <<type, x>> for x in lst ]
Typed(type, lst) == [ i \in 1..Len(lst) |-> << type, lst[i] >> ]

\* candidates whose people are cut to the cap before the stopwords are dropped
Candidates_CapBeforeFilter(user_message) ==
    Typed("Person", SelectSeq(Take(FindPeople(user_message, 1), PEOPLE_CAP),
                              LAMBDA p : SplitCount(p) <= 3 /\ p \notin PERSON_STOPWORDS))
        \o Typed("Emotion", Take(FoundEmotions(user_message), EMOTIONS_CAP))
        \o Typed("Activity", Take(Activities(user_message), ACTIVITIES_CAP))

\* the (entityType, entityName) pairs one extraction run upserts, in order
Candidates(user_message) ==
    Typed("Person", Take(People(user_message), PEOPLE_CAP))
        \o Typed("Emotion", Take(FoundEmotions(user_message), EMOTIONS_CAP))
        \o Typed("Activity", Take(Activities(user_message), ACTIVITIES_CAP))

\* get_crisis_response: the fixed reply texts, named by their first sentence
CRISIS_RESPONSE_HIGH ==
    "I hear that you're going through something really difficult right now. Your safety matters to me, and I want to make sure you get the support you deserve.\n\nIf you're in immediate danger, please reach out to:\n- 988 (Suicide & Crisis Lifeline) - Call or text anytime\n- Text HOME to 741741 (Crisis Text Line)\n- 911 for emergencies\n\nYou're not alone in this. Would you like to talk about what's happening?"

CRISIS_RESPONSE_MEDIUM ==
    "I can hear that you're really struggling right now, and I want you to know that what you're feeling matters. These feelings can be overwhelming, but they don't have to be faced alone.\n\nIf you need to talk to someone right now:\n- 988 Suicide & Crisis Lifeline (call or text 988)\n- Crisis Text Line (text HOME to 741741)\n\nI'm here to listen. Would you like to tell me more about what's going on?"

\* None, as returned by get_crisis_response for any other level
NoneValue == "<None>"

get_crisis_response(crisis_level) ==
    IF crisis_level = "high" THEN CRISIS_RESPONSE_HIGH
    ELSE IF crisis_level = "medium" THEN CRISIS_RESPONSE_MEDIUM
    ELSE NoneValue

\* ------------------------------------------------------------------------
\* Dates: datetime.strptime(s, '%Y-%m-%d').date() and date subtraction
\* ------------------------------------------------------------------------

\* the positions of '-' in s
DashPositions(s) == { i \in 1..Len(s) : At(s, i) = "-" }

\* every character of s is a decimal digit
AllDigits(s) == \A i \in 1..Len(s) : CharIn(At(s, i), DIGITS)

\* the value of a decimal digit
DigitValue(c) == (CHOOSE j \in 1..Len(DIGITS) : SubSeq(DIGITS, j, j) = c) - 1

RECURSIVE StrToNat(_)
\* int(s) for a string of digits
StrToNat(s) ==
    IF Len(s) = 0 THEN 0
    ELSE 10 * StrToNat(SubSeq(s, 1, Len(s) - 1)) + DigitValue(At(s, Len(s)))

\* what %m accepts: 1[0-2]|0[1-9]|[1-9]
MonthField(f) ==
    /\ Len(f) \in { 1, 2 }
    /\ AllDigits(f)
    /\ StrToNat(f) \in 1..12
    /\ f # "00"

\* what %d accepts: 3[01]|[12]\d|0[1-9]|[1-9]| [1-9]
DayField(f) ==
    \/ /\ Len(f) \in { 1, 2 }
       /\ AllDigits(f)
       /\ StrToNat(f) \in 1..31
    \/ /\ Len(f) = 2
       /\ At(f, 1) = " "
       /\ CharIn(At(f, 2), "123456789")

\* the value of a field accepted by DayField
DayValue(f) == IF At(f, 1) = " " THEN StrToNat(SubSeq(f, 2, 2)) ELSE StrToNat(f)

IsLeap(y) == (y % 4 = 0) /\ ((y % 100 # 0) \/ (y % 400 = 0))

DaysInMonth(y, m) ==
    IF m = 2 THEN (IF IsLeap(y) THEN 29 ELSE 28)
    ELSE IF m \in { 4, 6, 9, 11 } THEN 30
    ELSE 31

RECURSIVE DaysBeforeMonth(_, _)
DaysBeforeMonth(y, m) ==
    IF m = 1 THEN 0 ELSE DaysBeforeMonth(y, m - 1) + DaysInMonth(y, m - 1)

\* date.toordinal(): the day number in the proleptic Gregorian calendar
ToOrdinal(y, m, d) ==
    (y - 1) * 365 + ((y - 1) \div 4) - ((y - 1) \div 100) + ((y - 1) \div 400)
        + DaysBeforeMonth(y, m) + d

\* strptime(s, '%Y-%m-%d').date(): ok is FALSE where strptime raises
\* ValueError (the format does not match, text remains, or no such day)
ParseDate(s) ==
    LET dashes == DashPositions(s)
        bad == [ ok |-> FALSE, ordinal |-> 0 ]
    IN  IF Cardinality(dashes) # 2 THEN bad
        ELSE LET d1 == MinOf(dashes)
                 d2 == MinOf(dashes \ { d1 })
                 yf == SubSeq(s, 1, d1 - 1)
                 mf == SubSeq(s, d1 + 1, d2 - 1)
                 df == SubSeq(s, d2 + 1, Len(s))
             IN  IF ~(Len(yf) = 4 /\ AllDigits(yf) /\ MonthField(mf) /\ DayField(df)) THEN bad
                 ELSE LET y == StrToNat(yf)
                          m == StrToNat(mf)
                          d == DayValue(df)
                      IN  IF y < 1 \/ d > DaysInMonth(y, m) THEN bad
                          ELSE [ ok |-> TRUE, ordinal |-> ToOrdinal(y, m, d) ]

\* ------------------------------------------------------------------------
\* Bounds of the model
\* ------------------------------------------------------------------------

\* the longest message of the classifier's input space, in fragments
MaxFrags == 3

\* extraction runs per behaviour
MaxRuns == 2

\* store operations that fail (raise) per behaviour
MaxFaults == 1

\* the last instant of the clock
MaxClock == 2

\* requests to /journals and /profile per behaviour
MaxReqs == 3

\* requests to /conversations/message per behaviour
MaxTurns == 2

\* conversations created per behaviour
MaxConvs == 1

\* nodes and edges in the store that context retrieval is called on
MaxNodes == 2

MaxEdges == 1

\* days that pass per behaviour
MaxDays == 2

\* requests being handled at the same time
MaxInFlight == 2

\* ------------------------------------------------------------------------
\* State
\* ------------------------------------------------------------------------

VARIABLES
    cd_message,        \* the message handed to detect_crisis_level
    cd_result,         \* what it returned, or NotCalled
    clock,             \* datetime.utcnow()
    faults,            \* store operations that have failed so far
    knowledge_nodes,   \* db.knowledge_nodes, in insertion order
    knowledge_edges,   \* db.knowledge_edges, in insertion order
    extraction_logs,   \* db.extraction_logs, in insertion order
    runs,              \* the calls of extract_knowledge_from_message
    upsert_calls,      \* history: the calls of store_or_update_node, in call order
    profiles,          \* db.profiles, in insertion order
    journals,          \* db.journals, in insertion order
    reqs,              \* the requests being handled, in order of arrival
    today,             \* datetime.utcnow().date(), as a day number
    conversations,     \* db.conversations, in insertion order
    crisis_logs,       \* db.crisis_logs, in insertion order
    log_tasks,         \* the tasks running log_crisis_event
    acompletion        \* whether litellm could be imported

crisisVars == << cd_message, cd_result >>

storeVars == << knowledge_nodes, knowledge_edges, extraction_logs, runs, upsert_calls >>

envVars == << clock, faults >>

streakVars == << profiles, journals, reqs, today >>

turnVars == << conversations, crisis_logs, log_tasks, acompletion >>

vars == << crisisVars, storeVars, envVars, streakVars, turnVars >>

\* what the actions of the knowledge store leave alone
outsideStore == << crisisVars, journals, reqs, today, profiles, turnVars >>

\* the value of cd_result before the call: a result with no level yet
NotCalled == [ CrisisResultInit EXCEPT !.level = "<not called>" ]

\* the components a specification does not exercise stay as constructed
IdleCrisis == cd_message = "" /\ cd_result = NotCalled

InitStore ==
    /\ knowledge_nodes = << >>
    /\ knowledge_edges = << >>
    /\ extraction_logs = << >>
    /\ runs = << >>
    /\ upsert_calls = << >>

InitEnv == clock = 0 /\ faults = 0

IdleStreak ==
    /\ profiles = << >>
    /\ journals = << >>
    /\ reqs = << >>
    /\ today = 0

IdleTurns ==
    /\ conversations = << >>
    /\ crisis_logs = << >>
    /\ log_tasks = << >>
    /\ acompletion = TRUE

\* ------------------------------------------------------------------------
\* The classifier applied to a bounded space of messages
\* ------------------------------------------------------------------------

\* pieces a message is put together from: keywords of every tier in mixed
\* case, a keyword split over two pieces, and neutral text
CrisisFragments ==
    { "I ", "want to DIE", " kill ", "him", "Hopeless", "give up", "Anxious" }

RECURSIVE MessagesOfLen(_)
MessagesOfLen(n) ==
    IF n = 0 THEN { "" }
    ELSE { f \o m : f \in CrisisFragments, m \in MessagesOfLen(n - 1) }

CrisisMessages == UNION { MessagesOfLen(n) : n \in 0..MaxFrags }

InitCrisis ==
    /\ cd_message \in CrisisMessages
    /\ cd_result = NotCalled
    /\ InitStore
    /\ InitEnv
    /\ IdleStreak
    /\ IdleTurns

\* one call of detect_crisis_level
ClassifyMessage ==
    /\ cd_result = NotCalled
    /\ cd_result' = detect_crisis_level(cd_message)
    /\ UNCHANGED << cd_message, storeVars, envVars, streakVars, turnVars >>

NextCrisis == ClassifyMessage

SpecCrisis == InitCrisis /\ [][NextCrisis]_vars

\* ------------------------------------------------------------------------
\* Claims about the classifier
\* ------------------------------------------------------------------------

\* some keyword of the tier is a case-insensitive substring of the message
HasTier(tier, message) ==
    \E i \in 1..Len(CRISIS_KEYWORDS[tier]) :
        Contains(Lower(message), CRISIS_KEYWORDS[tier][i])

\* the keywords of the tier that match, in tier-list order
TierMatches(tier, message) ==
    SelectSeq(CRISIS_KEYWORDS[tier], LAMBDA k : Contains(Lower(message), k))

RefLevel(message) ==
    IF HasTier("high_risk", message) THEN "high"
    ELSE IF HasTier("medium_risk", message) THEN "medium"
    ELSE IF HasTier("low_risk", message) THEN "low"
    ELSE "none"

RefTier(level) ==
    IF level = "high" THEN "high_risk"
    ELSE IF level = "medium" THEN "medium_risk"
    ELSE "low_risk"

RefClassifier(message) ==
    LET level == RefLevel(message)
    IN  [ level |-> level,
          matched_keywords |->
              IF level = "none" THEN << >> ELSE TierMatches(RefTier(level), message),
          requires_intervention |-> (level = "high"),
          show_resources |-> (level \in { "high", "medium" }) ]

SeqRange(s) == { s[i] : i \in 1..Len(s) }

\* C2: a message with at least one high-risk keyword and at least one medium-
\* or low-risk keyword is classified exactly "high".
C2_HighDominates ==
    ( /\ cd_result # NotCalled
      /\ HasTier("high_risk", cd_message)
      /\ HasTier("medium_risk", cd_message) \/ HasTier("low_risk", cd_message) )
    => cd_result.level = "high"

\* a classified message holding keywords of all three tiers
C2_Witness ==
    /\ cd_result # NotCalled
    /\ HasTier("high_risk", cd_message)
    /\ HasTier("medium_risk", cd_message)
    /\ HasTier("low_risk", cd_message)
    /\ cd_result.level = "high"

\* C3: detect_crisis_level equals the reference classifier (first tier with a
\* match wins, high before medium before low); matched_keywords holds all
\* matches of the winning tier in list order and nothing of another tier, and
\* is empty iff the level is none; requires_intervention iff high;
\* show_resources iff high or medium.
C3_EqualsReference ==
    cd_result # NotCalled =>
        /\ cd_result = RefClassifier(cd_message)
        /\ (cd_result.matched_keywords = << >>) <=> (cd_result.level = "none")
        /\ cd_result.level # "none" =>
             \A t \in { "high_risk", "medium_risk", "low_risk" } \ { RefTier(cd_result.level) } :
                 SeqRange(cd_result.matched_keywords) \cap SeqRange(CRISIS_KEYWORDS[t]) = { }
        /\ cd_result.requires_intervention <=> (cd_result.level = "high")
        /\ cd_result.show_resources <=> (cd_result.level \in { "high", "medium" })

\* a medium-risk message with two medium matches and a low-risk keyword that
\* must stay out of matched_keywords
C3_Witness ==
    /\ cd_result # NotCalled
    /\ cd_result.level = "medium"
    /\ Len(cd_result.matched_keywords) = 2
    /\ HasTier("low_risk", cd_message)


\* ------------------------------------------------------------------------
\* Knowledge store: store_or_update_node
\* ------------------------------------------------------------------------

\* no document (find_one returned None)
NoDoc ==
    [ _id |-> 0, profileId |-> 0, entityType |-> "", entityName |-> "",
      firstMentioned |-> 0, lastMentioned |-> 0, mentionCount |-> 0 ]

\* the natural key of a node document
NodeKey(doc) == << doc.profileId, doc.entityType, doc.entityName >>

\* db.knowledge_nodes.find_one({profileId, entityType, entityName}): the first
\* matching document in natural order, or None
FindNodeByKey(nodes, profile_id, entity_type, entity_name) ==
    LET hits == { i \in 1..Len(nodes) :
                    NodeKey(nodes[i]) = << profile_id, entity_type, entity_name >> }
    IN  IF hits = { } THEN NoDoc ELSE nodes[MinOf(hits)]

\* db.knowledge_nodes.find_one({'_id': id})
FindNodeById(nodes, id) ==
    LET hits == { i \in 1..Len(nodes) : nodes[i]._id = id }
    IN  IF hits = { } THEN NoDoc ELSE nodes[MinOf(hits)]

\* KnowledgeNode(profileId, entityType, entityName): the two timestamp defaults
\* are two readings of the clock, mentionCount defaults to 1
KnowledgeNode(profile_id, entity_type, entity_name, first, last) ==
    [ _id |-> 0, profileId |-> profile_id, entityType |-> entity_type,
      entityName |-> entity_name, firstMentioned |-> first,
      lastMentioned |-> last, mentionCount |-> 1 ]

\* insert_one: the document gets a fresh _id and goes to the end
InsertDoc(coll, doc) == Append(coll, [ doc EXCEPT !._id = Len(coll) + 1 ])

\* an update that sets lastMentioned and forgets the $inc
UpdateMention_NoInc(nodes, id, now) ==
    [ i \in 1..Len(nodes) |->
        IF nodes[i]._id = id
        THEN [ nodes[i] EXCEPT !.lastMentioned = now ]
        ELSE nodes[i] ]

\* an update that increments and leaves lastMentioned as it was
UpdateMention_NoStamp(nodes, id, now) ==
    [ i \in 1..Len(nodes) |->
        IF nodes[i]._id = id
        THEN [ nodes[i] EXCEPT !.mentionCount = @ + 1 ]
        ELSE nodes[i] ]

\* update_one({'_id': id}, {$set: {lastMentioned: now}, $inc: {mentionCount: 1}}),
\* one atomic document update
UpdateMention(nodes, id, now) ==
    [ i \in 1..Len(nodes) |->
        IF nodes[i]._id = id
        THEN [ nodes[i] EXCEPT !.lastMentioned = now, !.mentionCount = @ + 1 ]
        ELSE nodes[i] ]

\* ------------------------------------------------------------------------
\* Extraction runs: extract_knowledge_from_message
\* ------------------------------------------------------------------------

\* a run as created by the call, before its body has started
NewRun(profile_id, conversation_id, user_message, turn) ==
    [ profile_id |-> profile_id, conversation_id |-> conversation_id,
      user_message |-> user_message, turn |-> turn,
      pc |-> "start", todo |-> << >>, existing |-> NoDoc, node |-> NoDoc,
      stamp |-> 0, inserted_id |-> 0, extracted_nodes |-> << >>, call |-> 0 ]

\* store_or_update_node has returned to the storing loops: a node appends its
\* id to extracted_nodes, None does not; then the next candidate, or the log
AfterUpsert(run, id, now) ==
    LET rest == Tail(run.todo)
    IN  [ run EXCEPT !.todo = rest,
                     !.extracted_nodes = IF id # 0 THEN Append(@, id) ELSE @,
                     !.pc = IF rest = << >> THEN "log" ELSE "find",
                     !.stamp = now,
                     !.existing = NoDoc, !.node = NoDoc, !.inserted_id = 0 ]

\* the history entry of a call of store_or_update_node
UpsertCall(r, key) ==
    [ run |-> r, key |-> key, kind |-> "none", at |-> 0, id |-> 0, returned |-> "pending" ]

\* a store operation raises; at most MaxFaults do
Fault ==
    /\ faults < MaxFaults
    /\ faults' = faults + 1

\* the body starts: the three candidate lists are computed from the message
ExtractStart(r) ==
    /\ runs[r].pc = "start"
    /\ LET todo == Candidates(runs[r].user_message)
       IN  runs' = [ runs EXCEPT ![r].todo = todo,
                                 ![r].stamp = clock,
                                 ![r].pc = IF todo = << >> THEN "log" ELSE "find" ]
    /\ UNCHANGED << knowledge_nodes, knowledge_edges, extraction_logs, upsert_calls,
                    outsideStore, envVars >>

\* store_or_update_node, find_one by natural key (lines 355-359), and what
\* follows it up to the next store operation
UpsertFind(r) ==
    /\ runs[r].pc = "find"
    /\ LET run == runs[r]
           cand == Head(run.todo)
           key == << run.profile_id, cand[1], cand[2] >>
           c == Len(upsert_calls) + 1
       IN  \/ LET existing == FindNodeByKey(knowledge_nodes, key[1], key[2], key[3])
              IN  /\ IF existing # NoDoc
                     THEN /\ runs' = [ runs EXCEPT ![r].existing = existing,
                                                   ![r].stamp = clock,
                                                   ![r].call = c,
                                                   ![r].pc = "update" ]
                          /\ clock' = clock
                     ELSE \E last \in { clock, IF clock < MaxClock THEN clock + 1 ELSE clock } :
                            /\ runs' = [ runs EXCEPT
                                           ![r].node = KnowledgeNode(key[1], key[2], key[3], clock, last),
                                           ![r].call = c,
                                           ![r].pc = "insert" ]
                            /\ clock' = last
                  /\ upsert_calls' = Append(upsert_calls, UpsertCall(r, key))
                  /\ UNCHANGED faults
           \/ /\ Fault
              /\ upsert_calls' = Append(upsert_calls,
                                        [ UpsertCall(r, key) EXCEPT !.returned = "None" ])
              /\ runs' = [ runs EXCEPT ![r] = AfterUpsert(run, 0, clock) ]
              /\ UNCHANGED clock
    /\ UNCHANGED << knowledge_nodes, knowledge_edges, extraction_logs, outsideStore >>

\* store_or_update_node, the update of the existing node (lines 361-370): it
\* returns the document it had found
UpsertUpdate(r) ==
    /\ runs[r].pc = "update"
    /\ LET run == runs[r]
       IN  \/ /\ knowledge_nodes' = UpdateMention(knowledge_nodes, run.existing._id, run.stamp)
              /\ upsert_calls' = [ upsert_calls EXCEPT
                                     ![run.call].kind = "update",
                                     ![run.call].at = run.stamp,
                                     ![run.call].id = run.existing._id,
                                     ![run.call].returned = "node" ]
              /\ runs' = [ runs EXCEPT ![r] = AfterUpsert(run, run.existing._id, clock) ]
              /\ UNCHANGED faults
           \/ /\ Fault
              /\ upsert_calls' = [ upsert_calls EXCEPT ![run.call].returned = "None" ]
              /\ runs' = [ runs EXCEPT ![r] = AfterUpsert(run, 0, clock) ]
              /\ UNCHANGED knowledge_nodes
    /\ UNCHANGED << knowledge_edges, extraction_logs, outsideStore, clock >>

\* store_or_update_node, the insert of a new node (lines 371-378)
UpsertInsert(r) ==
    /\ runs[r].pc = "insert"
    /\ LET run == runs[r]
           id == Len(knowledge_nodes) + 1
       IN  \/ /\ knowledge_nodes' = InsertDoc(knowledge_nodes, run.node)
              /\ upsert_calls' = [ upsert_calls EXCEPT
                                     ![run.call].kind = "insert",
                                     ![run.call].at = run.node.firstMentioned,
                                     ![run.call].id = id ]
              /\ runs' = [ runs EXCEPT ![r].inserted_id = id, ![r].pc = "refetch" ]
              /\ UNCHANGED faults
           \/ /\ Fault
              /\ upsert_calls' = [ upsert_calls EXCEPT ![run.call].returned = "None" ]
              /\ runs' = [ runs EXCEPT ![r] = AfterUpsert(run, 0, clock) ]
              /\ UNCHANGED knowledge_nodes
    /\ UNCHANGED << knowledge_edges, extraction_logs, outsideStore, clock >>

\* store_or_update_node, find_one by the inserted id (line 379): its result is
\* what the call returns
UpsertRefetch(r) ==
    /\ runs[r].pc = "refetch"
    /\ LET run == runs[r]
       IN  \/ /\ upsert_calls' = [ upsert_calls EXCEPT ![run.call].returned = "node" ]
              /\ runs' = [ runs EXCEPT ![r] =
                             AfterUpsert(run, FindNodeById(knowledge_nodes, run.inserted_id)._id, clock) ]
              /\ UNCHANGED faults
           \/ /\ Fault
              /\ upsert_calls' = [ upsert_calls EXCEPT ![run.call].returned = "None" ]
              /\ runs' = [ runs EXCEPT ![r] = AfterUpsert(run, 0, clock) ]
    /\ UNCHANGED << knowledge_nodes, knowledge_edges, extraction_logs, outsideStore, clock >>

\* a log record that leaves the collected node ids out
ExtractionLog_NoNodes(run) ==
    [ _id |-> 0, profileId |-> run.profile_id, conversationId |-> run.conversation_id,
      messageContent |-> run.user_message, extractedNodes |-> << >>,
      extractedEdges |-> << >>, timestamp |-> run.stamp ]

\* ExtractionLog(...) as built at lines 339-345
ExtractionLog(run) ==
    [ _id |-> 0, profileId |-> run.profile_id, conversationId |-> run.conversation_id,
      messageContent |-> run.user_message, extractedNodes |-> run.extracted_nodes,
      extractedEdges |-> << >>, timestamp |-> run.stamp ]

\* a run that lets the exception of its log insert out of the coroutine
extract_knowledge_from_message_raises(insert_ok) ==
    IF insert_ok THEN "done" ELSE "raised"

\* how extract_knowledge_from_message ends: the exception of insert_one is
\* caught and logged by the except clause (lines 348-349), the coroutine
\* returns None either way
extract_knowledge_from_message(insert_ok) ==
    IF insert_ok THEN "done" ELSE "failed"

\* the insert of the ExtractionLog (line 346)
ExtractLog(r) ==
    /\ runs[r].pc = "log"
    /\ \/ /\ extraction_logs' = InsertDoc(extraction_logs, ExtractionLog(runs[r]))
          /\ runs' = [ runs EXCEPT ![r].pc = extract_knowledge_from_message(TRUE) ]
          /\ UNCHANGED faults
       \/ /\ Fault
          /\ runs' = [ runs EXCEPT ![r].pc = extract_knowledge_from_message(FALSE) ]
          /\ UNCHANGED extraction_logs
    /\ UNCHANGED << knowledge_nodes, knowledge_edges, upsert_calls, outsideStore, clock >>

\* one step of an extraction run
ExtractStep(r) ==
    \/ ExtractStart(r)
    \/ UpsertFind(r)
    \/ UpsertUpdate(r)
    \/ UpsertInsert(r)
    \/ UpsertRefetch(r)
    \/ ExtractLog(r)

\* time passes
Tick ==
    /\ clock < MaxClock
    /\ clock' = clock + 1
    /\ UNCHANGED << faults, storeVars, outsideStore >>

\* ------------------------------------------------------------------------
\* Extraction called on a bounded space of messages
\* ------------------------------------------------------------------------

\* a repeated name, a name with an emotion, and a whitespace-only message
ExtractMessages == { "Sarah met Sarah", "Sarah felt happy", "   " }

RunFinished(r) == runs[r].pc \in { "done", "failed" }

\* extract_knowledge_from_message(profile 1, conversation 1, m, reply) is called
CallExtract(m) ==
    /\ Len(runs) < MaxRuns
    /\ runs' = Append(runs, NewRun(1, 1, m, 0))
    /\ UNCHANGED << knowledge_nodes, knowledge_edges, extraction_logs, upsert_calls,
                    outsideStore, envVars >>

\* the same call, made only when every earlier run has finished
CallExtractInSequence(m) ==
    /\ \A r \in 1..Len(runs) : RunFinished(r)
    /\ CallExtract(m)

InitExtract == IdleCrisis /\ InitStore /\ InitEnv /\ IdleStreak /\ IdleTurns

\* runs as concurrent tasks, interleaved at their store operations
NextExtract ==
    \/ \E m \in ExtractMessages : CallExtract(m)
    \/ \E r \in 1..Len(runs) : ExtractStep(r)
    \/ Tick

SpecExtract == InitExtract /\ [][NextExtract]_vars

\* runs one after the other
NextExtractSeq ==
    \/ \E m \in ExtractMessages : CallExtractInSequence(m)
    \/ \E r \in 1..Len(runs) : ExtractStep(r)
    \/ Tick

SpecExtractSeq == InitExtract /\ [][NextExtractSeq]_vars

\* ------------------------------------------------------------------------
\* Claims about the knowledge store
\* ------------------------------------------------------------------------

\* the natural keys store_or_update_node has been called with
CalledKeys == { upsert_calls[i].key : i \in 1..Len(upsert_calls) }

\* the calls for one key, in call order
CallsFor(key) == SelectSeq(upsert_calls, LAMBDA c : c.key = key)

\* the positions of the stored nodes with one key
NodesFor(key) == { i \in 1..Len(knowledge_nodes) : NodeKey(knowledge_nodes[i]) = key }

\* C7: two calls of store_or_update_node in sequence with the same
\* (profileId, entityType, entityName), both returning a node, leave exactly
\* one node for the key, with mentionCount = 2, lastMentioned as written by the
\* second call, and firstMentioned, _id and the key fields as the first call
\* created them.
C7_TwoUpsertsOneNode ==
    \A key \in CalledKeys :
        LET cs == CallsFor(key)
            ns == NodesFor(key)
        IN  ( Len(cs) = 2 /\ cs[1].returned = "node" /\ cs[2].returned = "node" )
            => /\ Cardinality(ns) = 1
               /\ \A i \in ns :
                    /\ knowledge_nodes[i].mentionCount = 2
                    /\ cs[1].kind = "insert"
                    /\ cs[2].kind = "update"
                    /\ knowledge_nodes[i].lastMentioned = cs[2].at
                    /\ knowledge_nodes[i].firstMentioned = cs[1].at
                    /\ knowledge_nodes[i]._id = cs[1].id
                    /\ cs[2].id = cs[1].id
                    /\ NodeKey(knowledge_nodes[i]) = key

\* a key upserted exactly twice, the second time at a later instant
C7_Witness ==
    \E key \in CalledKeys :
        LET cs == CallsFor(key)
        IN  /\ Len(cs) = 2
            /\ cs[1].returned = "node"
            /\ cs[2].returned = "node"
            /\ \E i \in NodesFor(key) :
                 /\ knowledge_nodes[i].mentionCount = 2
                 /\ knowledge_nodes[i].lastMentioned > knowledge_nodes[i].firstMentioned

\* C8: under any interleaving of concurrent store_or_update_node calls, at most
\* one node exists per (profileId, entityType, entityName) in every reachable
\* state.
C8_AtMostOneNodePerKey ==
    \A i, j \in 1..Len(knowledge_nodes) :
        NodeKey(knowledge_nodes[i]) = NodeKey(knowledge_nodes[j]) => i = j

\* the extraction runs that have inserted or updated a node of the key
ProducingRuns(key) ==
    { upsert_calls[i].run :
        i \in { j \in 1..Len(upsert_calls) :
                  /\ upsert_calls[j].key = key
                  /\ upsert_calls[j].kind \in { "insert", "update" } } }

\* C9: in every reachable state each node's mentionCount equals the number of
\* extraction runs that produced the node's key.
C9_MentionCountEqualsEvents ==
    \A i \in 1..Len(knowledge_nodes) :
        knowledge_nodes[i].mentionCount
            = Cardinality(ProducingRuns(NodeKey(knowledge_nodes[i])))

\* ------------------------------------------------------------------------
\* Profile and streak: get_or_create_profile, calculate_streak, update_streak
\* ------------------------------------------------------------------------

\* the default of UserProfile.preferences (lines 132-136)
DEFAULT_PREFERENCES ==
    [ voiceEnabled |-> TRUE, notificationsEnabled |-> TRUE, notificationTime |-> "20:00" ]

\* UserProfile(): the streak fields and the preferences of a new profile
\* document.  serialize_doc renames _id to id (its string form); the model
\* keeps the one name _id.
UserProfile ==
    [ _id |-> 0, currentStreak |-> 0, longestStreak |-> 0, totalJournalDays |-> 0,
      lastJournalDate |-> NoneValue, preferences |-> DEFAULT_PREFERENCES ]

\* not profile.get('lastJournalDate')
NoLastJournalDate(profile) == profile.lastJournalDate \in { NoneValue, "" }

Max(a, b) == IF a >= b THEN a ELSE b

\* a $set document that takes the new streak as the longest one
StreakSet_NoMax(profile, date_str, new_streak, days_diff) ==
    [ currentStreak |-> new_streak,
      longestStreak |-> new_streak,
      lastJournalDate |-> date_str,
      totalJournalDays |-> profile.totalJournalDays + (IF days_diff # 0 THEN 1 ELSE 0) ]

\* the $set document of update_streak (lines 236-245)
StreakSet(profile, date_str, new_streak, days_diff) ==
    [ currentStreak |-> new_streak,
      longestStreak |-> Max(new_streak, profile.longestStreak),
      lastJournalDate |-> date_str,
      totalJournalDays |-> profile.totalJournalDays + (IF days_diff # 0 THEN 1 ELSE 0) ]

\* update_streak between its two store operations (lines 216-236): it raises
\* ValueError, returns the profile as read, or goes on to update_one
StreakUpdate(profile, date_str) ==
    LET t == ParseDate(date_str)
        l == ParseDate(profile.lastJournalDate)
        none == StreakSet(profile, date_str, 0, 0)
    IN  IF ~t.ok THEN [ action |-> "raise", set |-> none ]
        ELSE IF NoLastJournalDate(profile)
        THEN [ action |-> "update", set |-> StreakSet(profile, date_str, 1, 1) ]
        ELSE IF ~l.ok THEN [ action |-> "raise", set |-> none ]
        ELSE LET days_diff == t.ordinal - l.ordinal
             IN  IF days_diff = 0 THEN [ action |-> "return", set |-> none ]
                 ELSE IF days_diff = 1
                 THEN [ action |-> "update",
                        set |-> StreakSet(profile, date_str, profile.currentStreak + 1, days_diff) ]
                 ELSE [ action |-> "update",
                        set |-> StreakSet(profile, date_str, 1, days_diff) ]

\* a streak that lapses as soon as the last entry is a day old
calculate_streak_lapses_early(profile, now) ==
    IF NoLastJournalDate(profile) THEN 0
    ELSE LET l == ParseDate(profile.lastJournalDate)
         IN  IF ~l.ok THEN -1
             ELSE IF now - l.ordinal >= 1 THEN 0
             ELSE profile.currentStreak

\* calculate_streak(profile) on the day now; -1 where strptime raises
calculate_streak(profile, now) ==
    IF NoLastJournalDate(profile) THEN 0
    ELSE LET l == ParseDate(profile.lastJournalDate)
         IN  IF ~l.ok THEN -1
             ELSE IF now - l.ordinal > 1 THEN 0
             ELSE profile.currentStreak

\* db.profiles.find_one({'_id': id})
FindProfileById(coll, id) ==
    LET hits == { i \in 1..Len(coll) : coll[i]._id = id }
    IN  IF hits = { } THEN UserProfile ELSE coll[MinOf(hits)]

\* an update that leaves totalJournalDays as it was
SetStreakFields_NoTotal(coll, id, set) ==
    [ i \in 1..Len(coll) |->
        IF coll[i]._id = id
        THEN [ coll[i] EXCEPT !.currentStreak = set.currentStreak,
                              !.longestStreak = set.longestStreak,
                              !.lastJournalDate = set.lastJournalDate ]
        ELSE coll[i] ]

\* db.profiles.update_one({'_id': id}, {'$set': set}) for the streak fields
SetStreakFields(coll, id, set) ==
    [ i \in 1..Len(coll) |->
        IF coll[i]._id = id
        THEN [ coll[i] EXCEPT !.currentStreak = set.currentStreak,
                              !.longestStreak = set.longestStreak,
                              !.lastJournalDate = set.lastJournalDate,
                              !.totalJournalDays = set.totalJournalDays ]
        ELSE coll[i] ]

\* db.profiles.update_one({'_id': id}, {'$set': {'currentStreak': n}})
SetCurrentStreak(coll, id, n) ==
    [ i \in 1..Len(coll) |->
        IF coll[i]._id = id THEN [ coll[i] EXCEPT !.currentStreak = n ] ELSE coll[i] ]

\* ------------------------------------------------------------------------
\* Requests: create_journal (POST /journals) and get_profile (GET /profile)
\* ------------------------------------------------------------------------

NoJournal == [ _id |-> 0, date |-> "" ]

NoConversation == [ _id |-> 0, type |-> "", messages |-> << >> ]

\* a request as received; pc names the store operation it is about to make,
\* ret the code that runs once get_or_create_profile has returned
NewRequest(kind, date_str) ==
    [ kind |-> kind, date |-> date_str,
      pc |-> IF kind = "create_journal" THEN "j_find"
             ELSE IF kind = "get_profile" THEN "gp_find" ELSE "sm_find",
      ret |-> IF kind = "get_profile" THEN "gp_calc" ELSE "",
      profile |-> UserProfile, gp_id |-> 0, inserted_id |-> 0,
      set |-> StreakSet(UserProfile, "", 0, 0),
      us |-> "not called", before |-> UserProfile, returned |-> UserProfile,
      calc_day |-> 0, status |-> "pending", result_profile |-> UserProfile, result_journal |-> NoJournal,
      conversationId |-> 0, content |-> "", conversation_type |-> "",
      crisis_check |-> NotCalled, recent_nodes |-> << >>, context |-> NoneValue,
      llm_calls |-> 0, extractions |-> 0, ai_text |-> NoneValue,
      ai_response_text |-> NoneValue, result_conversation |-> NoConversation,
      limit |-> 0, result_nodes |-> << >>, profile_data |-> NoneValue ]

\* ------------------------------------------------------------------------
\* send_message and get_ai_response between their store operations
\* ------------------------------------------------------------------------

AI_UNAVAILABLE == "AI service unavailable (LiteLLM not installed)."

AI_KEY_FALLBACK ==
    "I'm having trouble connecting to my brain right now (API Key missing). But I'm listening!"

\* a reply that is the generated text alone at every level
CrisisAwareReply_NoPreface(crisis_level, ai_response_text) ==
    ai_response_text

\* what send_message makes of the text get_ai_response returned: at medium
\* the preface, a blank line and the text (lines 844-846), else the text
CrisisAwareReply(crisis_level, ai_response_text) ==
    IF crisis_level = "medium"
    THEN get_crisis_response("medium") \o "\n\n" \o ai_response_text
    ELSE ai_response_text

\* get_ai_response returns text and send_message goes on to update_one
Reply(req, text) ==
    [ req EXCEPT !.ai_text = text,
                 !.ai_response_text = CrisisAwareReply(req.crisis_check.level, text),
                 !.pc = "sm_push" ]

\* get_ai_response up to its first store operation (lines 525-530)
EnterAI(req) ==
    IF ~acompletion THEN Reply(req, AI_UNAVAILABLE)
    ELSE [ req EXCEPT !.pc = "gp_find", !.ret = "ai_profile" ]

\* a branch that sends every level to get_ai_response
SendMessageBranch_AlwaysAI(req) ==
    EnterAI(req)

\* send_message once it has the profile (lines 825-853): the fixed message at
\* high, get_ai_response at every other level
SendMessageBranch(req) ==
    IF req.crisis_check.level = "high"
    THEN [ req EXCEPT !.ai_response_text = get_crisis_response("high"), !.pc = "sm_push" ]
    ELSE EnterAI(req)

\* tasks for high-risk turns only
LogDispatch_HighOnly(q, req, profile) ==
    IF req.ret = "sm_branch" /\ req.crisis_check.level = "high"
    THEN << [ turn |-> q, profile_id |-> profile._id, message |-> req.content,
              crisis_level |-> req.crisis_check.level,
              matched_keywords |-> req.crisis_check.matched_keywords,
              outcome |-> "pending" ] >>
    ELSE << >>

\* asyncio.create_task(log_crisis_event(...)) (lines 825-832): the tasks that
\* request q creates when get_or_create_profile returns profile to it
LogDispatch(q, req, profile) ==
    IF req.ret = "sm_branch" /\ req.crisis_check.level \in { "high", "medium" }
    THEN << [ turn |-> q, profile_id |-> profile._id, message |-> req.content,
              crisis_level |-> req.crisis_check.level,
              matched_keywords |-> req.crisis_check.matched_keywords,
              outcome |-> "pending" ] >>
    ELSE << >>

\* the code that runs when get_or_create_profile has returned req.profile, up
\* to the next store operation
\* a get_ai_response that goes to the conversation and the model without the
\* context
EnterContext_Skipped(req) == [ req EXCEPT !.pc = "ai_conv" ]

\* get_ai_response with the profile in hand: retrieve_knowledge_context is
\* awaited first (line 538)
EnterContext(req) == [ req EXCEPT !.pc = "ctx_nodes" ]

ReqContinue(req, now) ==
    IF req.ret = "us_read"
    THEN LET r == StreakUpdate(req.profile, req.date)
         IN  IF r.action = "raise"
             THEN [ req EXCEPT !.before = req.profile, !.us = "raised",
                               !.status = "error 500", !.pc = "done" ]
             ELSE IF r.action = "return"
             THEN [ req EXCEPT !.before = req.profile, !.us = "returned",
                               !.returned = req.profile, !.pc = "j_refetch" ]
             ELSE [ req EXCEPT !.before = req.profile, !.set = r.set, !.pc = "us_update" ]
    ELSE IF req.ret = "us_return"
    THEN [ req EXCEPT !.us = "returned", !.returned = req.profile, !.pc = "j_refetch" ]
    ELSE IF req.ret = "gp_calc"
    THEN LET current_streak == calculate_streak(req.profile, now)
             read == [ req EXCEPT !.before = req.profile, !.calc_day = now ]
         IN  IF current_streak = -1
             THEN [ read EXCEPT !.status = "error 500", !.pc = "done" ]
             ELSE IF current_streak # req.profile.currentStreak
             THEN [ read EXCEPT !.set.currentStreak = current_streak, !.pc = "p_update" ]
             ELSE [ read EXCEPT !.status = "ok", !.result_profile = req.profile, !.pc = "done" ]
    ELSE IF req.ret = "p_return"
    THEN [ req EXCEPT !.status = "ok", !.result_profile = req.profile, !.pc = "done" ]
    ELSE IF req.ret = "sm_branch"
    THEN SendMessageBranch(req)
    ELSE IF req.ret = "kn_find"
    THEN [ req EXCEPT !.pc = "kn_find" ]
    ELSE IF req.ret = "up_update"
    THEN [ req EXCEPT !.pc = "up_update" ]
    ELSE IF req.ret = "up_return"
    THEN [ req EXCEPT !.status = "ok", !.result_profile = req.profile, !.pc = "done" ]
    ELSE EnterContext(req)

outsideStreak == << crisisVars, storeVars, envVars, turnVars >>

\* what get_or_create_profile and the code after it leave alone
outsideProfile == << journals, today, crisisVars, storeVars, envVars, conversations, crisis_logs, acompletion >>

\* create_journal: find_one({'date': data.date}) (lines 889-891)
JournalFind(q) ==
    /\ reqs[q].pc = "j_find"
    /\ LET hits == { i \in 1..Len(journals) : journals[i].date = reqs[q].date }
       IN  reqs' = [ reqs EXCEPT ![q] =
                       IF hits # { }
                       THEN [ @ EXCEPT !.result_journal = journals[MinOf(hits)],
                                       !.status = "ok", !.pc = "done" ]
                       ELSE [ @ EXCEPT !.pc = "j_insert" ] ]
    /\ UNCHANGED << profiles, journals, today, outsideStreak >>

\* create_journal: insert_one(journal) (lines 893-898), then update_streak is
\* called and starts with get_or_create_profile
JournalInsert(q) ==
    /\ reqs[q].pc = "j_insert"
    /\ journals' = InsertDoc(journals, [ _id |-> 0, date |-> reqs[q].date ])
    /\ reqs' = [ reqs EXCEPT ![q].inserted_id = Len(journals) + 1,
                             ![q].pc = "gp_find", ![q].ret = "us_read" ]
    /\ UNCHANGED << profiles, today, outsideStreak >>

\* get_or_create_profile: find_one() (line 192)
ReqProfileFind(q) ==
    /\ reqs[q].pc = "gp_find"
    /\ reqs' = [ reqs EXCEPT ![q] =
                   IF profiles = << >>
                   THEN [ @ EXCEPT !.pc = "gp_insert" ]
                   ELSE ReqContinue([ @ EXCEPT !.profile = profiles[1] ], today) ]
    /\ log_tasks' = IF profiles = << >> THEN log_tasks
                    ELSE log_tasks \o LogDispatch(q, reqs[q], profiles[1])
    /\ UNCHANGED << profiles, outsideProfile >>

\* get_or_create_profile: insert_one(UserProfile()) (lines 194-195)
ReqProfileInsert(q) ==
    /\ reqs[q].pc = "gp_insert"
    /\ profiles' = InsertDoc(profiles, UserProfile)
    /\ reqs' = [ reqs EXCEPT ![q].gp_id = Len(profiles) + 1, ![q].pc = "gp_refetch" ]
    /\ UNCHANGED << journals, today, outsideStreak >>

\* get_or_create_profile: find_one by the inserted id (line 196)
ReqProfileRefetch(q) ==
    /\ reqs[q].pc = "gp_refetch"
    /\ reqs' = [ reqs EXCEPT ![q] =
                   ReqContinue([ @ EXCEPT !.profile = FindProfileById(profiles, reqs[q].gp_id) ], today) ]
    /\ log_tasks' = log_tasks \o LogDispatch(q, reqs[q], FindProfileById(profiles, reqs[q].gp_id))
    /\ UNCHANGED << profiles, outsideProfile >>

\* update_streak: update_one (lines 238-246), then get_or_create_profile again
StreakWrite(q) ==
    /\ reqs[q].pc = "us_update"
    /\ profiles' = SetStreakFields(profiles, reqs[q].profile._id, reqs[q].set)
    /\ reqs' = [ reqs EXCEPT ![q].pc = "gp_find", ![q].ret = "us_return" ]
    /\ UNCHANGED << journals, today, outsideStreak >>

\* create_journal: find_one by the inserted id, returned to the client
\* (lines 903-904)
JournalRefetch(q) ==
    /\ reqs[q].pc = "j_refetch"
    /\ LET hits == { i \in 1..Len(journals) : journals[i]._id = reqs[q].inserted_id }
       IN  reqs' = [ reqs EXCEPT ![q].result_journal =
                                     IF hits = { } THEN NoJournal ELSE journals[MinOf(hits)],
                                 ![q].status = "ok", ![q].pc = "done" ]
    /\ UNCHANGED << profiles, journals, today, outsideStreak >>

\* get_profile: update_one of currentStreak (lines 662-665), then
\* get_or_create_profile again
ProfileDecayWrite(q) ==
    /\ reqs[q].pc = "p_update"
    /\ profiles' = SetCurrentStreak(profiles, reqs[q].profile._id, reqs[q].set.currentStreak)
    /\ reqs' = [ reqs EXCEPT ![q].pc = "gp_find", ![q].ret = "p_return" ]
    /\ UNCHANGED << journals, today, outsideStreak >>

\* a handler that answers as if nothing had happened
StoreFailure_Swallowed(req) ==
    [ req EXCEPT !.status = "ok", !.pc = "done",
                 !.us = IF @ = "not called" /\ req.ret \in { "us_read", "us_return" }
                        THEN "raised" ELSE @ ]

\* the exception of a store operation leaves the handler, and update_streak
\* with it when the operation is one of its own
StoreFailure(req) ==
    [ req EXCEPT !.status = "error 500", !.pc = "done",
                 !.us = IF @ = "not called" /\ req.ret \in { "us_read", "us_return" }
                        THEN "raised" ELSE @ ]

\* a store operation of a request raises: create_journal and get_profile do
\* not catch it, send_message and get_ai_response turn it into HTTPException
\* 500; either way the client gets a 500
ReqStoreFails(q) ==
    /\ reqs[q].pc \notin { "done", "ctx_nodes", "ctx_edges", "ai_llm" }
    /\ Fault
    /\ reqs' = [ reqs EXCEPT ![q] = StoreFailure(@) ]
    /\ UNCHANGED << profiles, journals, today, crisisVars, storeVars, clock, turnVars >>

ReqStep(q) ==
    \/ JournalFind(q)
    \/ JournalInsert(q)
    \/ ReqProfileFind(q)
    \/ ReqProfileInsert(q)
    \/ ReqProfileRefetch(q)
    \/ StreakWrite(q)
    \/ JournalRefetch(q)
    \/ ProfileDecayWrite(q)
    \/ ReqStoreFails(q)

\* the day the server starts on
FIRST_DAY == "2024-02-28"

\* midnight passes
NextDay ==
    /\ today < ParseDate(FIRST_DAY).ordinal + MaxDays
    /\ today' = today + 1
    /\ UNCHANGED << profiles, journals, reqs, outsideStreak >>

\* ------------------------------------------------------------------------
\* The journal and profile handlers on a bounded space of dates
\* ------------------------------------------------------------------------

\* consecutive days over the end of a leap-year February, a second spelling
\* of one of them, a later day, and a day that does not exist
JournalDates ==
    { "2024-02-28", "2024-02-29", "2024-03-01", "2024-3-1", "2024-03-04", "2024-02-30" }

ReqFinished(q) == reqs[q].pc = "done"

\* POST /journals with date d
CreateJournalCall(d) ==
    /\ Len(reqs) < MaxReqs
    /\ reqs' = Append(reqs, NewRequest("create_journal", d))
    /\ UNCHANGED << profiles, journals, today, outsideStreak >>

\* GET /profile
GetProfileCall ==
    /\ Len(reqs) < MaxReqs
    /\ reqs' = Append(reqs, NewRequest("get_profile", ""))
    /\ UNCHANGED << profiles, journals, today, outsideStreak >>

InitStreak ==
    /\ IdleCrisis /\ InitStore /\ InitEnv /\ IdleTurns
    /\ profiles = << >>
    /\ journals = << >>
    /\ reqs = << >>
    /\ today = ParseDate(FIRST_DAY).ordinal

\* requests handled one after the other
NextStreakSeq ==
    \/ /\ \A q \in 1..Len(reqs) : ReqFinished(q)
       /\ \/ \E d \in JournalDates : CreateJournalCall(d)
          \/ GetProfileCall
    \/ \E q \in 1..Len(reqs) : ReqStep(q)
    \/ NextDay

SpecStreakSeq == InitStreak /\ [][NextStreakSeq]_vars

\* two consecutive days and a day after a gap, all of them before the day the
\* server starts on, the first two long enough ago for the streak to lapse
PastDates == { "2024-02-25", "2024-02-26", "2024-02-28" }

\* requests handled concurrently within one day, interleaved at their store
\* operations
NextStreak ==
    \/ /\ Cardinality({ q \in 1..Len(reqs) : ~ReqFinished(q) }) < MaxInFlight
       /\ \/ \E d \in PastDates : CreateJournalCall(d)
          \/ GetProfileCall
    \/ \E q \in 1..Len(reqs) : ReqStep(q)

SpecStreak == InitStreak /\ [][NextStreak]_vars

\* ------------------------------------------------------------------------
\* The streak transition
\* ------------------------------------------------------------------------

\* the reference transition recordJournal(S, d) on a well-formed date d
RefTransition(S, d) ==
    LET bump(cur) == [ S EXCEPT !.currentStreak = cur,
                                !.totalJournalDays = S.totalJournalDays + 1,
                                !.lastJournalDate = d,
                                !.longestStreak = IF cur > S.longestStreak
                                                  THEN cur ELSE S.longestStreak ]
    IN  IF S.lastJournalDate = NoneValue THEN bump(1)
        ELSE LET daysDiff == ParseDate(d).ordinal - ParseDate(S.lastJournalDate).ordinal
             IN  CASE daysDiff = 0 -> S
                   [] daysDiff = 1 -> bump(S.currentStreak + 1)
                   [] daysDiff > 1 \/ daysDiff < 0 -> bump(1)

\* the calls of update_streak that returned
StreakCalls == { q \in 1..Len(reqs) : reqs[q].kind = "create_journal" /\ reqs[q].us = "returned" }

\* C10: update_streak applied to a streak state S and a journal date d returns
\* the reference transition of S and d: 1 / total + 1 / d with no prior date,
\* S unchanged with daysDiff = 0, current + 1 with daysDiff = 1, a restart at 1
\* with daysDiff > 1 or < 0, and longestStreak = max(old longest, new current)
\* in every branch that writes.
C10_UpdateStreakIsReference ==
    \A q \in StreakCalls : reqs[q].returned = RefTransition(reqs[q].before, reqs[q].date)

\* a back-dated entry restarts a streak of two at 1 and keeps the longest
C10_Witness ==
    \E q \in StreakCalls :
        /\ reqs[q].before.currentStreak = 2
        /\ ParseDate(reqs[q].date).ordinal < ParseDate(reqs[q].before.lastJournalDate).ordinal
        /\ reqs[q].returned.currentStreak = 1
        /\ reqs[q].returned.longestStreak = 2
        /\ reqs[q].returned.totalJournalDays = 3

\* ------------------------------------------------------------------------
\* Context retrieval: retrieve_knowledge_context
\* ------------------------------------------------------------------------

RECURSIVE Join(_, _)
\* sep.join(parts)
Join(sep, parts) ==
    IF parts = << >> THEN ""
    ELSE IF Len(parts) = 1 THEN parts[1]
    ELSE parts[1] \o sep \o Join(sep, Tail(parts))

RECURSIVE SortedFrom(_, _, _)
\* the descending orders of the documents at the positions left: any of those
\* with the greatest value first, then the others
SortedFrom(docs, field, left) ==
    IF left = { } THEN { << >> }
    ELSE LET top == { i \in left : \A j \in left : docs[i][field] >= docs[j][field] }
         IN  UNION { { << docs[i] >> \o rest : rest \in SortedFrom(docs, field, left \ { i }) } :
                     i \in top }

\* the results find().sort(field, -1) can give on docs: descending by field,
\* documents with equal values in any order
SortOrders(docs, field) == SortedFrom(docs, field, 1..Len(docs))

\* next(n for n in recent_nodes if str(n['_id']) == id, None)
NodeIn(recent_nodes, id) == FindNodeById(recent_nodes, id)

\* a context that lists every fetched node as a key entity
BuildContext_AnyMention(recent_nodes, recent_edges) ==
    IF recent_nodes = << >> THEN "No previous context available."
    ELSE LET entities == Take(SelectSeq(recent_nodes, LAMBDA n : n.mentionCount > 0), 10)
             entity_names == [ i \in 1..Len(entities) |->
                                 entities[i].entityName \o " (" \o entities[i].entityType \o ")" ]
         IN  IF entities = << >> THEN "No specific context available."
             ELSE "Key people/things mentioned: " \o Join(", ", entity_names)

\* key entities that are cut to ten before the filter on mentionCount
KeyEntities_CapBeforeFilter(recent_nodes) ==
    SelectSeq(Take(recent_nodes, 10), LAMBDA n : n.mentionCount > 1)

\* [node for node in recent_nodes if node['mentionCount'] > 1][:10] (line 268)
KeyEntities(recent_nodes) ==
    Take(SelectSeq(recent_nodes, LAMBDA n : n.mentionCount > 1), 10)

\* connections resolved for every fetched edge
ResolvedEdges_AllFetched(recent_nodes, recent_edges) ==
    SelectSeq(recent_edges,
              LAMBDA e : /\ NodeIn(recent_nodes, e.sourceNodeId) # NoDoc
                         /\ NodeIn(recent_nodes, e.targetNodeId) # NoDoc)

\* the edges of recent_edges[:5] with both ends among the fetched nodes
\* (lines 276-279)
ResolvedEdges(recent_nodes, recent_edges) ==
    SelectSeq(Take(recent_edges, 5),
              LAMBDA e : /\ NodeIn(recent_nodes, e.sourceNodeId) # NoDoc
                         /\ NodeIn(recent_nodes, e.targetNodeId) # NoDoc)

\* the context string built from the fetched nodes and edges (lines 262-286)
BuildContext(recent_nodes, recent_edges) ==
    IF recent_nodes = << >> THEN "No previous context available."
    ELSE LET entities == KeyEntities(recent_nodes)
             entity_names == [ i \in 1..Len(entities) |->
                                 entities[i].entityName \o " (" \o entities[i].entityType \o ")" ]
             resolved == ResolvedEdges(recent_nodes, recent_edges)
             relationships == [ i \in 1..Len(resolved) |->
                                  NodeIn(recent_nodes, resolved[i].sourceNodeId).entityName
                                      \o " " \o resolved[i].relationshipType \o " "
                                      \o NodeIn(recent_nodes, resolved[i].targetNodeId).entityName ]
             context_parts ==
                 (IF entities # << >>
                  THEN << "Key people/things mentioned: " \o Join(", ", entity_names) >>
                  ELSE << >>)
                 \o (IF relationships # << >>
                     THEN << "Recent connections: " \o Join("; ", relationships) >>
                     ELSE << >>)
         IN  IF context_parts = << >> THEN "No specific context available."
             ELSE Join(" | ", context_parts)

CONTEXT_UNAVAILABLE == "Context retrieval unavailable."

\* ------------------------------------------------------------------------
\* Conversations: create_conversation, send_message, log_crisis_event
\* ------------------------------------------------------------------------

\* Conversation(type): no messages yet
Conversation(type, now) ==
    [ _id |-> 0, type |-> type, messages |-> << >>, updatedAt |-> now ]

\* Message(role, content)
Message(role, content) == [ role |-> role, content |-> content ]

\* db.conversations.find_one({'_id': id})
FindConversation(coll, id) ==
    LET hits == { i \in 1..Len(coll) : coll[i]._id = id }
    IN  IF hits = { } THEN NoConversation
        ELSE [ _id |-> coll[MinOf(hits)]._id, type |-> coll[MinOf(hits)].type,
               messages |-> coll[MinOf(hits)].messages ]

\* update_one with $push $each and $set updatedAt (lines 863-873)
PushMessages(coll, id, msgs, now) ==
    [ i \in 1..Len(coll) |->
        IF coll[i]._id = id
        THEN [ coll[i] EXCEPT !.messages = @ \o msgs, !.updatedAt = now ]
        ELSE coll[i] ]

\* the document log_crisis_event inserts (lines 497-504)
CrisisLogEntry(task, now) ==
    [ _id |-> 0, profileId |-> task.profile_id, message |-> Prefix(task.message, 500),
      crisisLevel |-> task.crisis_level, matchedKeywords |-> task.matched_keywords,
      timestamp |-> now, handled |-> TRUE ]

\* a coroutine that lets the exception of insert_one escape
log_crisis_event_raises(insert_ok) ==
    IF insert_ok THEN "logged" ELSE "raised"

\* how log_crisis_event ends: the exception of insert_one is caught and
\* logged (lines 505-506), the coroutine returns None either way
log_crisis_event(insert_ok) ==
    IF insert_ok THEN "logged" ELSE "caught"

\* what the steps of a request leave alone when they change reqs only
outsideReq == << profiles, log_tasks, outsideProfile >>

\* POST /conversations (lines 784-788)
CreateConversation(type) ==
    /\ Len(conversations) < MaxConvs
    /\ conversations' = InsertDoc(conversations, Conversation(type, clock))
    /\ UNCHANGED << streakVars, crisisVars, storeVars, envVars, crisis_logs, log_tasks,
                    acompletion >>

\* POST /conversations/message arrives
SendMessageCall(id, content) ==
    /\ Len(reqs) < MaxTurns
    /\ reqs' = Append(reqs, [ NewRequest("send_message", "") EXCEPT
                                !.conversationId = id, !.content = content ])
    /\ UNCHANGED outsideReq

\* send_message: find_one of the conversation, 404 if there is none, then
\* detect_crisis_level and the call of get_or_create_profile (lines 810-823)
TurnFind(q) ==
    /\ reqs[q].pc = "sm_find"
    /\ LET conversation == FindConversation(conversations, reqs[q].conversationId)
       IN  reqs' = [ reqs EXCEPT ![q] =
                       IF conversation = NoConversation
                       THEN [ @ EXCEPT !.status = "error 404", !.pc = "done" ]
                       ELSE [ @ EXCEPT !.conversation_type = conversation.type,
                                       !.crisis_check = detect_crisis_level(reqs[q].content),
                                       !.pc = "gp_find", !.ret = "sm_branch" ] ]
    /\ UNCHANGED outsideReq

\* retrieve_knowledge_context: the 20 most recently mentioned nodes
\* (lines 254-256)
TurnContextNodes(q) ==
    /\ reqs[q].pc = "ctx_nodes"
    /\ \E found \in SortOrders(SelectSeq(knowledge_nodes,
                                         LAMBDA n : n.profileId = reqs[q].profile._id),
                               "lastMentioned") :
          reqs' = [ reqs EXCEPT ![q].recent_nodes = Take(found, 20), ![q].pc = "ctx_edges" ]
    /\ UNCHANGED outsideReq

\* retrieve_knowledge_context: the 15 most recently updated edges, then the
\* context string (lines 258-286)
TurnContextEdges(q) ==
    /\ reqs[q].pc = "ctx_edges"
    /\ \E found \in SortOrders(SelectSeq(knowledge_edges,
                                         LAMBDA e : e.profileId = reqs[q].profile._id),
                               "lastUpdated") :
          reqs' = [ reqs EXCEPT ![q].context = BuildContext(reqs[q].recent_nodes, Take(found, 15)),
                                ![q].pc = "ai_conv" ]
    /\ UNCHANGED outsideReq

\* an exception of a find that goes on to the caller of get_ai_response
ContextFailure_Propagates(req) ==
    [ req EXCEPT !.status = "error 500", !.pc = "done" ]

\* the except clause of retrieve_knowledge_context (lines 288-290): the
\* error is logged and the sentinel returned to get_ai_response
ContextFailure(req) ==
    [ req EXCEPT !.context = CONTEXT_UNAVAILABLE, !.pc = "ai_conv" ]

\* retrieve_knowledge_context: a find raises
TurnContextFails(q) ==
    /\ reqs[q].pc \in { "ctx_nodes", "ctx_edges" }
    /\ Fault
    /\ reqs' = [ reqs EXCEPT ![q] = ContextFailure(@) ]
    /\ UNCHANGED << profiles, journals, today, crisisVars, storeVars, clock, turnVars >>

\* get_ai_response: find_one of the conversation for the recent messages of
\* the prompt (lines 540-541)
TurnHistory(q) ==
    /\ reqs[q].pc = "ai_conv"
    /\ reqs' = [ reqs EXCEPT ![q].pc = "ai_llm" ]
    /\ UNCHANGED outsideReq

\* the texts the model can answer with
AI_REPLIES == { "That sounds like a lot. What happened next?" }

\* get_ai_response: acompletion (lines 615-640): it answers, and extraction
\* is created as a task; or it raises, with or without 'api_key' in the error
LLMCall(q) ==
    /\ reqs[q].pc = "ai_llm"
    /\ \/ \E ai_text \in AI_REPLIES :
            /\ reqs' = [ reqs EXCEPT ![q] =
                           Reply([ @ EXCEPT !.llm_calls = @ + 1, !.extractions = @ + 1 ], ai_text) ]
            /\ runs' = Append(runs, NewRun(reqs[q].profile._id, reqs[q].conversationId,
                                           reqs[q].content, q))
       \/ /\ reqs' = [ reqs EXCEPT ![q] =
                         Reply([ @ EXCEPT !.llm_calls = @ + 1 ], AI_KEY_FALLBACK) ]
          /\ UNCHANGED runs
       \/ /\ reqs' = [ reqs EXCEPT ![q].llm_calls = @ + 1,
                                   ![q].status = "error 500", ![q].pc = "done" ]
          /\ UNCHANGED runs
    /\ UNCHANGED << knowledge_nodes, knowledge_edges, extraction_logs, upsert_calls,
                    profiles, journals, today, crisisVars, envVars, turnVars >>

\* send_message: update_one pushes the user message and the reply
\* (lines 855-873)
TurnPush(q) ==
    /\ reqs[q].pc = "sm_push"
    /\ conversations' = PushMessages(conversations, reqs[q].conversationId,
                                     << Message("user", reqs[q].content),
                                        Message("assistant", reqs[q].ai_response_text) >>,
                                     clock)
    /\ reqs' = [ reqs EXCEPT ![q].pc = "sm_refetch" ]
    /\ UNCHANGED << profiles, journals, today, crisisVars, storeVars, envVars,
                    crisis_logs, log_tasks, acompletion >>

\* send_message: find_one of the updated conversation, returned to the client
\* (lines 876-877)
TurnRefetch(q) ==
    /\ reqs[q].pc = "sm_refetch"
    /\ reqs' = [ reqs EXCEPT ![q].result_conversation =
                                 FindConversation(conversations, reqs[q].conversationId),
                             ![q].status = "ok", ![q].pc = "done" ]
    /\ UNCHANGED outsideReq

\* log_crisis_event: insert_one succeeds
LogCrisisWrite(k) ==
    /\ log_tasks[k].outcome = "pending"
    /\ crisis_logs' = InsertDoc(crisis_logs, CrisisLogEntry(log_tasks[k], clock))
    /\ log_tasks' = [ log_tasks EXCEPT ![k].outcome = log_crisis_event(TRUE) ]
    /\ UNCHANGED << streakVars, crisisVars, storeVars, envVars, conversations, acompletion >>

\* log_crisis_event: insert_one raises
LogCrisisWriteFails(k) ==
    /\ log_tasks[k].outcome = "pending"
    /\ Fault
    /\ log_tasks' = [ log_tasks EXCEPT ![k].outcome = log_crisis_event(FALSE) ]
    /\ UNCHANGED << streakVars, crisisVars, storeVars, clock, conversations, crisis_logs,
                    acompletion >>

LogStep(k) == LogCrisisWrite(k) \/ LogCrisisWriteFails(k)

TurnStep(q) ==
    \/ TurnFind(q)
    \/ ReqProfileFind(q)
    \/ ReqProfileInsert(q)
    \/ ReqProfileRefetch(q)
    \/ TurnContextNodes(q)
    \/ TurnContextEdges(q)
    \/ TurnContextFails(q)
    \/ TurnHistory(q)
    \/ LLMCall(q)
    \/ TurnPush(q)
    \/ TurnRefetch(q)
    \/ ReqStoreFails(q)

\* ------------------------------------------------------------------------
\* Conversation turns on a bounded space of messages
\* ------------------------------------------------------------------------

\* a message longer than the 500 characters the crisis log keeps, with its
\* high-risk keyword beyond them
LONG_MESSAGE == Repeat(Repeat("x", 25), 20) \o " and I want to die"

\* high risk, high risk past 500 characters, medium, low with a person to
\* extract, none
TurnMessages ==
    { "I want to die", LONG_MESSAGE, "I feel worthless", "Sarah is depressed", "hello" }

InitTurn ==
    /\ IdleCrisis /\ InitStore /\ InitEnv
    /\ profiles = << >>
    /\ journals = << >>
    /\ reqs = << >>
    /\ today = ParseDate(FIRST_DAY).ordinal
    /\ conversations = << >>
    /\ crisis_logs = << >>
    /\ log_tasks = << >>
    /\ acompletion \in BOOLEAN

\* turns handled one after the other, all within one instant of the clock;
\* the tasks they create run on their own
NextTurnSeq ==
    \/ CreateConversation("journal")
    \/ /\ \A q \in 1..Len(reqs) : ReqFinished(q)
       /\ \E id \in 1..MaxConvs, content \in TurnMessages : SendMessageCall(id, content)
    \/ \E q \in 1..Len(reqs) : TurnStep(q)
    \/ \E k \in 1..Len(log_tasks) : LogStep(k)
    \/ \E r \in 1..Len(runs) : ExtractStep(r)

SpecTurnSeq == InitTurn /\ [][NextTurnSeq]_vars

\* the event loop runs every task it was given
SpecTurnSeqFair ==
    SpecTurnSeq /\ WF_vars(\E k \in 1..MaxTurns : k <= Len(log_tasks) /\ LogStep(k))

\* ------------------------------------------------------------------------
\* The reply and the audit log of a turn
\* ------------------------------------------------------------------------

Turns == { q \in 1..Len(reqs) : reqs[q].kind = "send_message" }

Level(q) == reqs[q].crisis_check.level

\* the turns that returned the updated conversation
Answered == { q \in Turns : reqs[q].pc = "done" /\ reqs[q].status = "ok" }

\* the last message of the conversation a turn returned
ReturnedReply(q) ==
    reqs[q].result_conversation.messages[Len(reqs[q].result_conversation.messages)]

\* the conversation a turn returned ends with the user's message and then
\* the assistant's text, and the store holds those messages
ReturnedAndPersisted(q, text) ==
    LET returned == reqs[q].result_conversation.messages
        stored == FindConversation(conversations, reqs[q].conversationId).messages
        n == Len(returned)
    IN  /\ n >= 2
        /\ returned[n - 1] = [ role |-> "user", content |-> reqs[q].content ]
        /\ returned[n] = [ role |-> "assistant", content |-> text ]
        /\ Len(stored) >= n
        /\ SubSeq(stored, 1, n) = returned

\* C1: a turn whose message classifies as high risk never calls the model and
\* never starts an extraction (no run, no node upsert, no ExtractionLog for
\* it), and the reply it returns and persists is exactly the fixed high-risk
\* message.
C1_HighRiskFixedReply ==
    \A q \in Turns :
        Level(q) = "high" =>
            /\ reqs[q].llm_calls = 0
            /\ reqs[q].ai_text = NoneValue
            /\ reqs[q].pc \notin { "ctx_nodes", "ctx_edges", "ai_conv", "ai_llm" }
            /\ reqs[q].extractions = 0
            /\ \A r \in 1..Len(runs) : runs[r].turn # q
            /\ \A c \in 1..Len(upsert_calls) : runs[upsert_calls[c].run].turn # q
            /\ \A l \in 1..Len(extraction_logs) :
                   extraction_logs[l].messageContent # reqs[q].content
            /\ reqs[q].pc \in { "sm_push", "sm_refetch" } =>
                   reqs[q].ai_response_text = CRISIS_RESPONSE_HIGH
            /\ q \in Answered => ReturnedAndPersisted(q, CRISIS_RESPONSE_HIGH)

\* a high-risk turn has returned the fixed message although the model was
\* available and an earlier turn was extracted from
C1_Witness ==
    \E q \in Answered :
        /\ Level(q) = "high"
        /\ acompletion
        /\ ReturnedReply(q).content = CRISIS_RESPONSE_HIGH
        /\ \E r \in 1..Len(runs) : runs[r].turn # q /\ runs[r].pc = "done"

\* the reply a medium- or high-risk turn gives when nothing goes wrong with
\* its audit log
SafetyReply(q) ==
    IF Level(q) = "high" THEN CRISIS_RESPONSE_HIGH
    ELSE CRISIS_RESPONSE_MEDIUM \o "\n\n" \o reqs[q].ai_text

\* C4: when the insert of the crisis log fails, log_crisis_event does not let
\* the exception out, and the turn that created the task still returns and
\* persists the safety reply it gives when the insert succeeds; if the turn
\* fails, it is the model or another store operation that failed.
C4_LogFailureNotPropagated ==
    \A k \in 1..Len(log_tasks) :
        /\ log_tasks[k].outcome \in { "pending", "logged", "caught" }
        /\ log_tasks[k].outcome = "caught" =>
               LET q == log_tasks[k].turn
               IN  /\ Level(q) \in { "high", "medium" }
                   /\ reqs[q].pc \in { "sm_push", "sm_refetch" } =>
                          reqs[q].ai_response_text = SafetyReply(q)
                   /\ q \in Answered => ReturnedAndPersisted(q, SafetyReply(q))
                   /\ reqs[q].status \notin { "pending", "ok" } =>
                          \/ reqs[q].llm_calls = 1 /\ reqs[q].ai_text = NoneValue
                          \/ faults >= 2

\* the log write of a medium-risk turn failed and the turn returned its reply
C4_Witness ==
    \E k \in 1..Len(log_tasks) :
        /\ log_tasks[k].outcome = "caught"
        /\ log_tasks[k].turn \in Answered
        /\ Level(log_tasks[k].turn) = "medium"
        /\ ReturnedReply(log_tasks[k].turn).content = SafetyReply(log_tasks[k].turn)
        /\ crisis_logs = << >>

\* the turns that have got their profile and chosen between the crisis path
\* and the normal path
Branched == { q \in Turns : reqs[q].ret = "ai_profile" \/ reqs[q].ai_response_text # NoneValue }

TasksOf(q) == { k \in 1..Len(log_tasks) : log_tasks[k].turn = q }

\* one task for each turn that reached the choice at medium or high, none for
\* any other; each task holds what the turn handed over, and a task that
\* wrote left one entry with the message cut to 500 characters
C5_Dispatch ==
    /\ \A q \in Turns :
           Cardinality(TasksOf(q)) =
               IF q \in Branched /\ Level(q) \in { "high", "medium" } THEN 1 ELSE 0
    /\ \A k \in 1..Len(log_tasks) :
           LET q == log_tasks[k].turn
               entries == { e \in 1..Len(crisis_logs) :
                              /\ crisis_logs[e].profileId = reqs[q].profile._id
                              /\ crisis_logs[e].message = Prefix(reqs[q].content, 500)
                              /\ Len(crisis_logs[e].message) <= 500
                              /\ crisis_logs[e].crisisLevel = Level(q)
                              /\ crisis_logs[e].matchedKeywords = reqs[q].crisis_check.matched_keywords }
           IN  /\ log_tasks[k].profile_id = reqs[q].profile._id
               /\ log_tasks[k].message = reqs[q].content
               /\ log_tasks[k].crisis_level = Level(q)
               /\ log_tasks[k].matched_keywords = reqs[q].crisis_check.matched_keywords
               /\ log_tasks[k].outcome = "logged" => entries # { }
    /\ Len(crisis_logs) =
           Cardinality({ k \in 1..Len(log_tasks) : log_tasks[k].outcome = "logged" })

\* C5: a turn classified medium or high creates exactly one audit task when
\* it reaches the choice of reply (one CrisisLogEntry with the profile id, the
\* message cut to 500 characters, the level and the matched keywords), a turn
\* classified low or none creates none, and every task created is eventually
\* attempted, whether or not the turn has replied by then.
C5_OneAuditWriteEventually ==
    /\ []C5_Dispatch
    /\ \A k \in 1..MaxTurns :
           (k <= Len(log_tasks)) ~> (k <= Len(log_tasks) /\ log_tasks[k].outcome # "pending")

\* one turn's long message was logged cut to 500 characters; a later turn has
\* returned its reply while its audit write is still to be attempted
C5_Witness ==
    \E k1, k2 \in 1..Len(log_tasks) :
        /\ log_tasks[k1].outcome = "logged"
        /\ Len(log_tasks[k1].message) > 500
        /\ \E e \in 1..Len(crisis_logs) : crisis_logs[e].message = Prefix(LONG_MESSAGE, 500)
        /\ log_tasks[k2].outcome = "pending"
        /\ log_tasks[k2].turn \in Answered

\* C6: the reply of a turn classified medium is the fixed medium-risk message
\* with its resource list, a blank line, and then the text get_ai_response
\* returned for the turn, as it returns it for any other turn.
C6_MediumPrefixedReply ==
    \A q \in Turns :
        (Level(q) = "medium" /\ reqs[q].ai_response_text # NoneValue) =>
            LET reply == reqs[q].ai_response_text
                m == Len(CRISIS_RESPONSE_MEDIUM)
            IN  /\ Len(reply) >= m + 2
                /\ SubSeq(reply, 1, m) = CRISIS_RESPONSE_MEDIUM
                /\ SubSeq(reply, m + 1, m + 2) = "\n\n"
                /\ SubSeq(reply, m + 3, Len(reply)) = reqs[q].ai_text
                /\ reqs[q].ai_text \in AI_REPLIES \cup { AI_KEY_FALLBACK, AI_UNAVAILABLE }
                /\ reqs[q].ai_text \in AI_REPLIES => reqs[q].llm_calls = 1 /\ reqs[q].extractions = 1
                /\ q \in Answered => ReturnedAndPersisted(q, reply)

\* a medium-risk turn has returned the preface followed by generated text
C6_Witness ==
    \E q \in Answered :
        /\ Level(q) = "medium"
        /\ reqs[q].ai_text \in AI_REPLIES
        /\ ReturnedReply(q).content = CRISIS_RESPONSE_MEDIUM \o "\n\n" \o reqs[q].ai_text

\* ------------------------------------------------------------------------
\* The stored streak across requests
\* ------------------------------------------------------------------------

\* C11: over any interleaving of journal creations and profile reads, no step
\* lowers the longestStreak of a stored profile.
C11_LongestNeverDecreases ==
    [][\A i \in 1..Len(profiles) :
          profiles'[i].longestStreak >= profiles[i].longestStreak]_vars

\* the profile reads that answered
ProfileReads ==
    { q \in 1..Len(reqs) : reqs[q].kind = "get_profile" /\ reqs[q].status = "ok" }

\* the days between the last journal date of S and the day now
DaysSince(S, now) == now - ParseDate(S.lastJournalDate).ordinal

\* what a profile read on the day now makes of the streak state S
RefRead(S, now) ==
    IF S.lastJournalDate # NoneValue /\ DaysSince(S, now) > 1
    THEN [ S EXCEPT !.currentStreak = 0 ]
    ELSE S

\* C12: a profile read more than one day after lastJournalDate leaves the
\* stored currentStreak at 0 and longestStreak, totalJournalDays and
\* lastJournalDate as they were; a read at most one day after it changes
\* nothing; a second read on the same day changes nothing further.
C12_ReadDecaysCurrentOnly ==
    \A q \in ProfileReads :
        /\ reqs[q].result_profile = RefRead(reqs[q].before, reqs[q].calc_day)
        /\ q = Len(reqs) => FindProfileById(profiles, reqs[q].before._id) = reqs[q].result_profile
        /\ (q + 1 \in ProfileReads /\ reqs[q + 1].calc_day = reqs[q].calc_day) =>
               /\ reqs[q + 1].before = reqs[q].result_profile
               /\ reqs[q + 1].result_profile = reqs[q].result_profile

\* a streak of one lapsed on a read two days after the entry, and a second
\* read on that day found the profile as the first left it
C12_Witness ==
    \E q \in ProfileReads :
        /\ reqs[q].before.currentStreak = 1
        /\ DaysSince(reqs[q].before, reqs[q].calc_day) = 2
        /\ reqs[q].result_profile.currentStreak = 0
        /\ reqs[q].result_profile.longestStreak = 1
        /\ reqs[q].result_profile.totalJournalDays = 1
        /\ q + 1 \in ProfileReads
        /\ reqs[q + 1].calc_day = reqs[q].calc_day
        /\ reqs[q + 1].result_profile = reqs[q].result_profile

\* the calendar days that have at least one stored journal entry
JournaledDays ==
    { ParseDate(journals[i].date).ordinal :
        i \in { j \in 1..Len(journals) : ParseDate(journals[j].date).ok } }

\* the number of consecutive journaled days that end at day
RunEndingAt(day) ==
    Cardinality({ n \in 1..Len(journals) :
                    \A k \in 0..(n - 1) : (day - k) \in JournaledDays })

\* every request so far was a journal creation, and all of them answered
OnlyJournalsCreated ==
    /\ reqs # << >>
    /\ \A q \in 1..Len(reqs) :
           reqs[q].kind = "create_journal" /\ reqs[q].pc = "done" /\ reqs[q].status = "ok"

\* C13: after a sequence of journal creations with no profile read in between,
\* the stored currentStreak is the number of consecutive calendar days with an
\* entry that end at the date of the entry created last.
C13_StreakCountsConsecutiveDays ==
    OnlyJournalsCreated =>
        profiles[1].currentStreak =
            RunEndingAt(ParseDate(journals[Len(journals)].date).ordinal)

\* ------------------------------------------------------------------------
\* Journal creation: duplicates and malformed dates
\* ------------------------------------------------------------------------

\* two date strings that name one calendar day
SameDay(d1, d2) ==
    \/ d1 = d2
    \/ ParseDate(d1).ok /\ ParseDate(d2).ok /\ ParseDate(d1).ordinal = ParseDate(d2).ordinal

JournalCreations == { q \in 1..Len(reqs) : reqs[q].kind = "create_journal" }

\* the entries for the day of request q that were stored before q stored
\* anything
EntriesBefore(q) ==
    { i \in 1..Len(journals) :
        /\ SameDay(journals[i].date, reqs[q].date)
        /\ reqs[q].inserted_id = 0 \/ journals[i]._id < reqs[q].inserted_id }

\* C14: a journal creation for a date that already has an entry stores no
\* second entry for that date, does not call update_streak, and returns the
\* existing entry.
C14_DuplicateDateIsNoOp ==
    \A q \in JournalCreations :
        (EntriesBefore(q) # { } /\ reqs[q].status # "error 500") =>
            /\ reqs[q].inserted_id = 0
            /\ reqs[q].us = "not called"
            /\ reqs[q].status = "ok" =>
                   \E i \in EntriesBefore(q) : reqs[q].result_journal = journals[i]

\* C15: a journal creation whose date string is malformed ends in an error,
\* and neither a journal entry for that string nor a write to the streak is
\* persisted for it.
C15_MalformedDateRejected ==
    \A q \in JournalCreations :
        ~ParseDate(reqs[q].date).ok =>
            /\ reqs[q].pc = "done" => reqs[q].status = "error 500"
            /\ \A i \in 1..Len(journals) : journals[i].date # reqs[q].date
            /\ reqs[q].pc # "us_update"

\* ------------------------------------------------------------------------
\* Context retrieval called on a bounded space of stores
\* ------------------------------------------------------------------------

\* the entities the nodes of the store are about, by position
NODE_ENTITIES == << << "Person", "Sarah" >>, << "Emotion", "happy" >>, << "Activity", "yoga" >>,
                    << "Person", "Tom" >> >>

\* stores of up to MaxNodes nodes, in insertion order, of two profiles, each
\* mentioned once or twice, at one of two instants
NodeStores ==
    UNION { { [ i \in 1..n |->
                  [ _id |-> i, profileId |-> pid[i],
                    entityType |-> NODE_ENTITIES[i][1], entityName |-> NODE_ENTITIES[i][2],
                    firstMentioned |-> 0, lastMentioned |-> at[i], mentionCount |-> cnt[i] ] ] :
              pid \in [ 1..n -> 1..2 ], at \in [ 1..n -> 0..1 ], cnt \in [ 1..n -> 1..2 ] } :
            n \in 0..MaxNodes }

\* stores of up to MaxEdges edges between node ids, one id beyond the nodes
\* there can be
EdgeStores ==
    UNION { { [ i \in 1..n |->
                  [ _id |-> i, profileId |-> pid[i], sourceNodeId |-> src[i],
                    targetNodeId |-> tgt[i], relationshipType |-> "mentioned_with",
                    lastUpdated |-> 0 ] ] :
              pid \in [ 1..n -> 1..2 ], src \in [ 1..n -> 1..(MaxNodes + 1) ],
              tgt \in [ 1..n -> 1..(MaxNodes + 1) ] } :
            n \in 0..MaxEdges }

InitContext ==
    /\ IdleCrisis /\ InitEnv /\ IdleStreak /\ IdleTurns
    /\ knowledge_nodes \in NodeStores
    /\ knowledge_edges \in EdgeStores
    /\ extraction_logs = << >>
    /\ runs = << >>
    /\ upsert_calls = << >>

\* get_ai_response calls retrieve_knowledge_context(profile_id, user_message)
CallRetrieveContext(profile_id) ==
    /\ Len(reqs) < MaxTurns
    /\ reqs' = Append(reqs, [ NewRequest("retrieve_context", "") EXCEPT
                                !.profile._id = profile_id, !.pc = "ctx_nodes" ])
    /\ UNCHANGED outsideReq

ContextStep(q) ==
    \/ TurnContextNodes(q)
    \/ TurnContextEdges(q)
    \/ TurnContextFails(q)

NextContext ==
    \/ \E profile_id \in 1..2 : CallRetrieveContext(profile_id)
    \/ \E q \in 1..Len(reqs) : ContextStep(q)

SpecContext == InitContext /\ [][NextContext]_vars

\* the calls of retrieve_knowledge_context that have returned
ContextReturned == { q \in 1..Len(reqs) : reqs[q].context # NoneValue }

NodesOfProfile(pid) ==
    { i \in 1..Len(knowledge_nodes) : knowledge_nodes[i].profileId = pid }

\* the edges of a profile with both ends among the nodes of the profile
ResolvableEdges(pid) ==
    { e \in 1..Len(knowledge_edges) :
        /\ knowledge_edges[e].profileId = pid
        /\ \E i \in NodesOfProfile(pid) : knowledge_nodes[i]._id = knowledge_edges[e].sourceNodeId
        /\ \E i \in NodesOfProfile(pid) : knowledge_nodes[i]._id = knowledge_edges[e].targetNodeId }

\* C16: without a store failure, context retrieval on a profile with no nodes
\* returns "No previous context available." whatever edges there are, and on
\* a profile with nodes, none mentioned more than once, and no edge with both
\* ends among them it returns "No specific context available.".
C16_ContextSentinels ==
    \A q \in ContextReturned :
        LET pid == reqs[q].profile._id
        IN  reqs[q].context # CONTEXT_UNAVAILABLE =>
                /\ NodesOfProfile(pid) = { } =>
                       reqs[q].context = "No previous context available."
                /\ ( /\ NodesOfProfile(pid) # { }
                     /\ \A i \in NodesOfProfile(pid) : knowledge_nodes[i].mentionCount <= 1
                     /\ ResolvableEdges(pid) = { } ) =>
                       reqs[q].context = "No specific context available."

\* one call on a profile with an edge and no nodes, one on a profile with a
\* node mentioned once and an edge that leads outside its nodes
C16_Witness ==
    \E q1, q2 \in ContextReturned :
        /\ reqs[q1].context = "No previous context available."
        /\ \E e \in 1..Len(knowledge_edges) : knowledge_edges[e].profileId = reqs[q1].profile._id
        /\ reqs[q2].context = "No specific context available."
        /\ NodesOfProfile(reqs[q2].profile._id) # { }

\* C17: a call of retrieve_knowledge_context always returns a string to
\* get_ai_response and never ends the request; when one of its finds fails the
\* string is "Context retrieval unavailable.".
C17_ContextNeverFails ==
    /\ \A q \in 1..Len(reqs) :
           /\ reqs[q].status = "pending"
           /\ reqs[q].pc \in { "ctx_nodes", "ctx_edges", "ai_conv" }
           /\ reqs[q].pc = "ai_conv" <=> reqs[q].context # NoneValue
    /\ Cardinality({ q \in 1..Len(reqs) : reqs[q].context = CONTEXT_UNAVAILABLE }) = faults

\* the find of the edges failed after the find of the nodes had succeeded, and
\* the call returned the sentinel
C17_Witness ==
    \E q \in ContextReturned :
        /\ reqs[q].context = CONTEXT_UNAVAILABLE
        /\ reqs[q].recent_nodes # << >>
        /\ reqs[q].pc = "ai_conv"
        /\ reqs[q].status = "pending"

\* ------------------------------------------------------------------------
\* Store failures on the synchronous and on the background paths
\* ------------------------------------------------------------------------

\* a journal creation or a turn whose message has a person to extract, one
\* after the other; the extractions run on their own
NextFailures ==
    \/ CreateConversation("journal")
    \/ /\ \A q \in 1..Len(reqs) : ReqFinished(q)
       /\ \/ SendMessageCall(1, "Sarah is depressed")
          \/ /\ Len(reqs) < MaxTurns
             /\ CreateJournalCall(FIRST_DAY)
    \/ \E q \in 1..Len(reqs) : TurnStep(q) \/ ReqStep(q)
    \/ \E r \in 1..Len(runs) : ExtractStep(r)

SpecFailures == InitTurn /\ [][NextFailures]_vars

\* update_streak was left by the exception of a store operation
StreakUpdateFailed(q) == reqs[q].kind = "create_journal" /\ reqs[q].us = "raised"

\* a find of retrieve_knowledge_context failed in turn q
ContextFindFailed(q) == reqs[q].kind = "send_message" /\ reqs[q].context = CONTEXT_UNAVAILABLE

\* a store operation of extraction run r failed
RunHitStoreError(r) ==
    \/ runs[r].pc = "failed"
    \/ \E c \in 1..Len(upsert_calls) :
          upsert_calls[c].run = r /\ upsert_calls[c].returned = "None"

\* the request failed, and something other than the one store failure at hand
\* made it fail: the model call, or a second store failure
FailedForAnotherReason(q) ==
    \/ reqs[q].llm_calls = 1 /\ reqs[q].ai_text = NoneValue
    \/ faults >= 2

\* a store failure in update_streak fails the journal creation; one in an
\* extraction run leaves the turn that created the run alone
StreakPropagatesExtractionDoesNot ==
    /\ \A q \in 1..Len(reqs) :
           StreakUpdateFailed(q) => reqs[q].pc = "done" /\ reqs[q].status = "error 500"
    /\ \A r \in 1..Len(runs) :
           (RunHitStoreError(r) /\ reqs[runs[r].turn].status = "error 500") => faults >= 2

\* C18 as stated: a store failure during context retrieval or during a streak
\* update fails the request that was being handled, and a store failure in
\* an extraction run does not.
C18_SyncFailuresPropagate ==
    /\ StreakPropagatesExtractionDoesNot
    /\ \A q \in 1..Len(reqs) :
           ContextFindFailed(q) => reqs[q].pc = "done" /\ reqs[q].status = "error 500"

\* C18, amended: a store failure during a streak update fails the journal
\* creation; a store failure during context retrieval does not fail the turn,
\* which goes on with the sentinel as its context; a store failure in an
\* extraction run does not fail the turn either.
C18_OnlyStreakFailuresPropagate ==
    /\ StreakPropagatesExtractionDoesNot
    /\ \A q \in 1..Len(reqs) :
           ContextFindFailed(q) =>
               /\ reqs[q].pc \in { "ai_conv", "ai_llm", "sm_push", "sm_refetch", "done" }
               /\ reqs[q].status = "error 500" => FailedForAnotherReason(q)

\* a journal creation has failed on a store error in update_streak, after its
\* entry was stored
C18_Witness ==
    \E q \in 1..Len(reqs) :
        /\ StreakUpdateFailed(q)
        /\ reqs[q].status = "error 500"
        /\ reqs[q].inserted_id # 0
        /\ faults = 1

\* ------------------------------------------------------------------------
\* The extraction log
\* ------------------------------------------------------------------------

\* the runs that reached the end of their body
DoneRuns == { r \in 1..Len(runs) : runs[r].pc = "done" }

\* the calls of store_or_update_node made by run r, in the order it made them
UpsertsOf(r) == SelectSeq(upsert_calls, LAMBDA c : c.run = r)

\* the ids of the nodes those calls returned, in the same order
IdsReturnedTo(r) ==
    LET returned == SelectSeq(UpsertsOf(r), LAMBDA c : c.returned = "node")
    IN  [ i \in 1..Len(returned) |-> returned[i].id ]

\* log record l is the record of run r
IsLogOf(l, r) ==
    /\ l.profileId = runs[r].profile_id
    /\ l.conversationId = runs[r].conversation_id
    /\ l.messageContent = runs[r].user_message
    /\ l.extractedNodes = IdsReturnedTo(r)
    /\ l.extractedEdges = << >>

\* every run that is done has a record of its own, and there is no other record
OneLogPerDoneRun ==
    /\ Len(extraction_logs) = Cardinality(DoneRuns)
    /\ \E f \in [ DoneRuns -> 1..Len(extraction_logs) ] :
          /\ \A r1, r2 \in DoneRuns : f[r1] = f[r2] => r1 = r2
          /\ \A r \in DoneRuns : IsLogOf(extraction_logs[f[r]], r)

\* the candidates of the messages the runs are called on
CandidatesOf == [ m \in ExtractMessages |-> Candidates(m) ]

\* a run that is done has made one call per candidate of its message, in the
\* order people, emotions, activities, and every call has returned; when none
\* of its store operations failed, the ids it logged are those of the nodes of
\* its candidates, in that order
LoggedAfterUpserts ==
    \A r \in DoneRuns :
        LET cands == CandidatesOf[runs[r].user_message]
            calls == UpsertsOf(r)
            ids == IdsReturnedTo(r)
        IN  /\ Len(calls) = Len(cands)
            /\ \A i \in 1..Len(calls) :
                  /\ calls[i].key = << runs[r].profile_id, cands[i][1], cands[i][2] >>
                  /\ calls[i].returned \in { "node", "None" }
            /\ ~RunHitStoreError(r) =>
                  /\ Len(ids) = Len(cands)
                  /\ \A i \in 1..Len(ids) :
                        NodeKey(FindNodeById(knowledge_nodes, ids[i])) = calls[i].key

\* a step leaves every record there is as it is
LogsAppendOnly ==
    /\ Len(extraction_logs') >= Len(extraction_logs)
    /\ \A i \in 1..Len(extraction_logs) : extraction_logs'[i] = extraction_logs[i]

\* C19: every extraction run that reaches its end has appended exactly one
\* ExtractionLog record, after all its upserts, with the whole message, the
\* ids of the nodes it upserted in the order people, emotions, activities and
\* no edge ids; a whitespace-only message gets a record with no ids; records
\* are never changed or removed.
C19_OneLogPerRun ==
    /\ [](OneLogPerDoneRun /\ LoggedAfterUpserts)
    /\ [][LogsAppendOnly]_vars

\* a run on a whitespace-only message and a run on a message with a person and
\* an emotion are both done, with a record without ids and one with two ids
C19_Witness ==
    \E r1, r2 \in DoneRuns :
        /\ runs[r1].user_message = "   "
        /\ runs[r2].user_message = "Sarah felt happy"
        /\ \E l1, l2 \in 1..Len(extraction_logs) :
              /\ extraction_logs[l1].messageContent = "   "
              /\ extraction_logs[l1].extractedNodes = << >>
              /\ extraction_logs[l2].messageContent = "Sarah felt happy"
              /\ Len(extraction_logs[l2].extractedNodes) = 2
              /\ extraction_logs[l2].extractedEdges = << >>

\* ------------------------------------------------------------------------
\* Extraction failures and the turn that started the run
\* ------------------------------------------------------------------------

\* the reply of turn q as send_message makes it from the text of the model
ReplyOfModel(q) == CrisisAwareReply(Level(q), reqs[q].ai_text)

\* C20: a store error in a node upsert or in the ExtractionLog write of an
\* extraction run is caught inside the run; the turn that started the run
\* goes on, and the reply it returns and persists is the one made from the
\* text of the model, as it is when the run succeeds.
C20_ExtractionFailureSwallowed ==
    \A r \in 1..Len(runs) :
        /\ runs[r].pc \in { "start", "find", "update", "insert", "refetch", "log",
                            "done", "failed" }
        /\ RunHitStoreError(r) =>
               LET q == runs[r].turn
               IN  /\ q \in Turns
                   /\ reqs[q].ai_text \in AI_REPLIES
                   /\ reqs[q].ai_response_text = ReplyOfModel(q)
                   /\ reqs[q].pc \in { "sm_push", "sm_refetch", "done" }
                   /\ q \in Answered => ReturnedAndPersisted(q, ReplyOfModel(q))
                   /\ reqs[q].status \notin { "pending", "ok" } => faults >= 2

\* the log write of a run failed, the run has ended, and its turn returned
\* the reply of the model
C20_Witness ==
    \E r \in 1..Len(runs) :
        /\ runs[r].pc = "failed"
        /\ extraction_logs = << >>
        /\ runs[r].turn \in Answered
        /\ ReturnedReply(runs[r].turn).content = reqs[runs[r].turn].ai_text

\* ------------------------------------------------------------------------
\* GET /knowledge/nodes after extraction runs
\* ------------------------------------------------------------------------

\* .limit(limit).to_list(limit) on the sorted cursor (line 1045)
RecentNodes(found, limit) == Take(found, limit)

\* GET /knowledge/nodes?limit=n: get_or_create_profile comes first (line 1042)
GetKnowledgeNodesCall(n) ==
    /\ Len(reqs) < MaxTurns
    /\ reqs' = Append(reqs, [ NewRequest("get_knowledge_nodes", "") EXCEPT
                                !.pc = "gp_find", !.ret = "kn_find", !.limit = n ])
    /\ UNCHANGED outsideReq

\* get_knowledge_nodes: find({'profileId': profile['id']}).sort('lastMentioned', -1)
\* (lines 1043-1046)
KnowledgeNodesFind(q) ==
    /\ reqs[q].pc = "kn_find"
    /\ \E found \in SortOrders(SelectSeq(knowledge_nodes,
                                         LAMBDA n : n.profileId = reqs[q].profile._id),
                               "lastMentioned") :
          reqs' = [ reqs EXCEPT ![q].result_nodes = RecentNodes(found, reqs[q].limit),
                                ![q].status = "ok", ![q].pc = "done" ]
    /\ UNCHANGED outsideReq

\* the limits asked for: fewer than the nodes there are, and as many
RecentLimits == { 1, 2 }

\* runs one after the other on the nodes of profile 1, then reads of the nodes
NextRecent ==
    \/ /\ reqs = << >>
       /\ \E m \in ExtractMessages : CallExtractInSequence(m)
    \/ \E r \in 1..Len(runs) : ExtractStep(r)
    \/ Tick
    \/ /\ \A r \in 1..Len(runs) : RunFinished(r)
       /\ \A q \in 1..Len(reqs) : ReqFinished(q)
       /\ \E n \in RecentLimits : GetKnowledgeNodesCall(n)
    \/ \E q \in 1..Len(reqs) : ReqStep(q) \/ KnowledgeNodesFind(q)

SpecRecent == InitExtract /\ [][NextRecent]_vars

\* the reads of the nodes that were answered
NodeReads ==
    { q \in 1..Len(reqs) : /\ reqs[q].kind = "get_knowledge_nodes"
                           /\ reqs[q].pc = "done" /\ reqs[q].status = "ok" }

\* the last call of store_or_update_node that wrote node id
LastTouch(id) ==
    LET touches == { c \in 1..Len(upsert_calls) :
                       /\ upsert_calls[c].id = id
                       /\ upsert_calls[c].kind \in { "insert", "update" } }
    IN  IF touches = { } THEN 0 ELSE CHOOSE c \in touches : \A d \in touches : d <= c

\* node a comes before node b: mentioned later, or at the same instant and
\* touched later
MoreRecent(a, b) ==
    \/ a.lastMentioned > b.lastMentioned
    \/ a.lastMentioned = b.lastMentioned /\ LastTouch(a._id) > LastTouch(b._id)

\* the nodes of a profile, most recently touched first
ByRecency(pid) ==
    LET mine == SelectSeq(knowledge_nodes, LAMBDA n : n.profileId = pid)
        n == Len(mine)
        rank(i) == Cardinality({ j \in 1..n : MoreRecent(mine[j], mine[i]) }) + 1
    IN  [ k \in 1..n |-> mine[CHOOSE i \in 1..n : rank(i) = k] ]

\* no two nodes of the store were last mentioned at the same instant
NoTies ==
    \A i, j \in 1..Len(knowledge_nodes) :
        i # j => knowledge_nodes[i].lastMentioned # knowledge_nodes[j].lastMentioned

\* C21: a read of the nodes with limit n returns the n most recently touched
\* nodes of the profile (all of them when there are no more than n, none when
\* there are none), ordered by lastMentioned descending and, at equal
\* lastMentioned, most recently touched first.
C21_RecentNodesByTouch ==
    \A q \in NodeReads :
        reqs[q].result_nodes = Take(ByRecency(reqs[q].profile._id), reqs[q].limit)

\* ------------------------------------------------------------------------
\* PUT /profile
\* ------------------------------------------------------------------------

\* db.profiles.update_one({'_id': id}, {'$set': profile_data}): every key of
\* the body becomes a top-level field of the document
SetFields(coll, id, profile_data) ==
    [ i \in 1..Len(coll) |->
        IF coll[i]._id = id
        THEN [ k \in DOMAIN coll[i] \cup DOMAIN profile_data |->
                 IF k \in DOMAIN profile_data THEN profile_data[k] ELSE coll[i][k] ]
        ELSE coll[i] ]

\* the preferences object of test_profile_management
NEW_PREFERENCES ==
    [ voiceEnabled |-> FALSE, notificationsEnabled |-> TRUE, theme |-> "dark" ]

\* the bodies sent: the preferences object itself, as the test sends it, and
\* a document that names the field to set
ProfileBodies == { NEW_PREFERENCES, [ preferences |-> NEW_PREFERENCES ] }

\* PUT /profile with body profile_data: get_or_create_profile comes first
\* (line 671)
UpdateProfileCall(profile_data) ==
    /\ Len(reqs) < MaxReqs
    /\ reqs' = Append(reqs, [ NewRequest("update_profile", "") EXCEPT
                                !.pc = "gp_find", !.ret = "up_update",
                                !.profile_data = profile_data ])
    /\ UNCHANGED outsideReq

\* update_profile: update_one with $set of the body (lines 672-675), then
\* get_or_create_profile again for the answer (line 676)
UpdateProfileWrite(q) ==
    /\ reqs[q].pc = "up_update"
    /\ profiles' = SetFields(profiles, reqs[q].profile._id, reqs[q].profile_data)
    /\ reqs' = [ reqs EXCEPT ![q].pc = "gp_find", ![q].ret = "up_return" ]
    /\ UNCHANGED << journals, today, outsideStreak >>

\* profile updates and profile reads, one after the other
NextProfile ==
    \/ /\ \A q \in 1..Len(reqs) : ReqFinished(q)
       /\ \/ \E profile_data \in ProfileBodies : UpdateProfileCall(profile_data)
          \/ GetProfileCall
    \/ \E q \in 1..Len(reqs) : ReqStep(q) \/ UpdateProfileWrite(q)
    \/ NextDay

SpecProfile == InitStreak /\ [][NextProfile]_vars

\* the profile updates that were answered
ProfileUpdates ==
    { q \in 1..Len(reqs) : /\ reqs[q].kind = "update_profile"
                           /\ reqs[q].pc = "done" /\ reqs[q].status = "ok" }

\* the body of the request is a preferences object, not a document with a
\* preferences field
BodyIsPreferences(q) == "preferences" \notin DOMAIN reqs[q].profile_data

\* C22: the profile returned by a profile update whose body is a preferences
\* object P has preferences equal to P.
C22_UpdateReturnsPreferences ==
    \A q \in ProfileUpdates :
        BodyIsPreferences(q) => reqs[q].result_profile.preferences = reqs[q].profile_data

\* ------------------------------------------------------------------------
\* Concurrent turns on one conversation
\* ------------------------------------------------------------------------

\* a message that goes to the model and one that gets the fixed reply
ConcurrentMessages == { "hello", "I want to die" }

\* turns that arrive while earlier ones are being handled, interleaved at
\* their store operations and at the call of the model
NextTurn ==
    \/ CreateConversation("journal")
    \/ \E content \in ConcurrentMessages : SendMessageCall(1, content)
    \/ \E q \in 1..Len(reqs) : TurnStep(q)
    \/ \E k \in 1..Len(log_tasks) : LogStep(k)
    \/ \E r \in 1..Len(runs) : ExtractStep(r)

SpecTurn == InitTurn /\ [][NextTurn]_vars

\* the messages of a conversation are pairs of a user message and the
\* assistant message that answers it
PairsOnly(messages) ==
    /\ Len(messages) % 2 = 0
    /\ \A i \in 1..Len(messages) :
          messages[i].role = IF i % 2 = 1 THEN "user" ELSE "assistant"

\* the turns on conversation id whose update_one has been applied and that
\* have not failed
PushedTurns(id) ==
    { q \in Turns : /\ reqs[q].conversationId = id
                    /\ reqs[q].pc = "sm_refetch" \/ q \in Answered }

\* every conversation holds pairs only, one pair for each turn that pushed
\* and went on to succeed
PairPerSuccessfulTurn ==
    \A c \in 1..Len(conversations) :
        /\ PairsOnly(conversations[c].messages)
        /\ \A q \in PushedTurns(conversations[c]._id) :
              \E i \in 1..Len(conversations[c].messages) :
                  /\ i % 2 = 1
                  /\ conversations[c].messages[i] = Message("user", reqs[q].content)
                  /\ conversations[c].messages[i + 1] =
                         Message("assistant", reqs[q].ai_response_text)

\* C23: every successful send_message appends the user's message and then
\* the assistant's reply in one write, so that at every moment, with turns
\* handled concurrently too, each conversation has an even number of messages
\* with roles user, assistant in turn; a send_message that fails appends
\* nothing.
C23_TwoMessagesPerSuccessfulTurn ==
    /\ PairPerSuccessfulTurn
    /\ \A c \in 1..Len(conversations) :
          Len(conversations[c].messages) = 2 * Cardinality(PushedTurns(conversations[c]._id))

\* ------------------------------------------------------------------------
\* The caps and the orders of the storing loops
\* ------------------------------------------------------------------------

\* five capitalised words with a stopword among the first three, three
\* emotions against the order of the vocabulary, three activities against the
\* order of the templates
CROWDED_MESSAGE ==
    "Ann, Bob, The, Cy, Di felt sad then happy then angry, watched tv, had tea, had fun"

CapMessages == { CROWDED_MESSAGE, "Tom played chess" }

\* runs on those messages, one after the other
NextCaps ==
    \/ \E m \in CapMessages : CallExtractInSequence(m)
    \/ \E r \in 1..Len(runs) : ExtractStep(r)
    \/ Tick

SpecCaps == InitExtract /\ [][NextCaps]_vars

\* what a run on each message is to upsert, in order
ExpectedUpserts(m) ==
    IF m = CROWDED_MESSAGE
    THEN << << "Person", "Ann" >>, << "Person", "Bob" >>, << "Person", "Cy" >>,
            << "Emotion", "happy" >>, << "Emotion", "sad" >>,
            << "Activity", "tea" >>, << "Activity", "fun" >> >>
    ELSE << << "Person", "Tom" >>, << "Activity", "chess" >> >>

\* the (entityType, entityName) pairs of the calls run r has made, in order
UpsertedBy(r) ==
    [ i \in 1..Len(UpsertsOf(r)) |-> << UpsertsOf(r)[i].key[2], UpsertsOf(r)[i].key[3] >> ]

CountOfType(pairs, type) == Cardinality({ i \in 1..Len(pairs) : pairs[i][1] = type })

\* C24: a run makes at most 3 Person, 2 Emotion and 2 Activity upserts, 7 in
\* all: the first 3 people left after the stopwords are dropped, in order of
\* appearance, then the first 2 emotions in the order of the vocabulary, then
\* the first 2 activity matches in the order of the templates.
C24_CapsAndOrders ==
    \A r \in 1..Len(runs) :
        LET made == UpsertedBy(r)
            expected == ExpectedUpserts(runs[r].user_message)
        IN  /\ Len(made) <= 7
            /\ CountOfType(made, "Person") <= 3
            /\ CountOfType(made, "Emotion") <= 2
            /\ CountOfType(made, "Activity") <= 2
            /\ Len(made) <= Len(expected)
            /\ made = SubSeq(expected, 1, Len(made))
            /\ RunFinished(r) => made = expected

\* a run on the crowded message has made its seven upserts and ended
C24_Witness ==
    \E r \in 1..Len(runs) :
        /\ runs[r].user_message = CROWDED_MESSAGE
        /\ runs[r].pc = "done"
        /\ Len(UpsertedBy(r)) = 7
        /\ Len(runs[r].extracted_nodes) = 7

\* ------------------------------------------------------------------------
\* Context retrieval on stores larger than its windows
\* ------------------------------------------------------------------------

\* more nodes than the 20 that are fetched
StoreNodes == 22

\* more edges than the 5 that are resolved
StoreEdges == 7

NODE_NAMES ==
    << "n01", "n02", "n03", "n04", "n05", "n06", "n07", "n08", "n09", "n10", "n11",
       "n12", "n13", "n14", "n15", "n16", "n17", "n18", "n19", "n20", "n21", "n22",
       "n23", "n24" >>

NODE_TYPES == << "Person", "Emotion", "Activity" >>

\* the sets of nodes mentioned more than once: none, all, every other one,
\* the first three
HotSets == { { }, 1..StoreNodes, { i \in 1..StoreNodes : i % 2 = 1 }, { 1, 2, 3 } }

\* where the most recent node is: at the last node, in the middle, and such
\* that ends of the edges fall out of the window
Rotations == { 0, 10, 18 }

\* a store of StoreNodes nodes of profile 1, but for node other of profile 2,
\* with distinct lastMentioned, the most recent at a place that goes round
\* with k
LargeNodeStore(k, hot, other) ==
    [ i \in 1..StoreNodes |->
        [ _id |-> i, profileId |-> IF i = other THEN 2 ELSE 1,
          entityType |-> NODE_TYPES[(i % 3) + 1], entityName |-> NODE_NAMES[i],
          firstMentioned |-> 0, lastMentioned |-> (i + k) % StoreNodes,
          mentionCount |-> IF i \in hot THEN 2 ELSE 1 ] ]

\* n edges of profile 1, edge i between nodes i and i + 1, with distinct
\* lastUpdated
LargeEdgeStore(k, n) ==
    [ i \in 1..n |->
        [ _id |-> i, profileId |-> 1, sourceNodeId |-> i, targetNodeId |-> i + 1,
          relationshipType |-> "mentioned_with", lastUpdated |-> (i + k) % StoreEdges ] ]

InitWindow ==
    /\ IdleCrisis /\ InitEnv /\ IdleStreak /\ IdleTurns
    /\ \E k \in Rotations, hot \in HotSets, other \in { 0, 5 }, n \in { 0, StoreEdges } :
          /\ knowledge_nodes = LargeNodeStore(k, hot, other)
          /\ knowledge_edges = LargeEdgeStore(k, n)
    /\ extraction_logs = << >>
    /\ runs = << >>
    /\ upsert_calls = << >>

SpecWindow == InitWindow /\ [][NextContext]_vars

\* the nodes of a profile that were mentioned after node i
NewerNodes(pid, i) ==
    { j \in NodesOfProfile(pid) :
        knowledge_nodes[j].lastMentioned > knowledge_nodes[i].lastMentioned }

\* the 20 most recently mentioned nodes of a profile
NodeWindow(pid) == { i \in NodesOfProfile(pid) : Cardinality(NewerNodes(pid, i)) < 20 }

\* those of them mentioned more than once
Qualifying(pid) == { i \in NodeWindow(pid) : knowledge_nodes[i].mentionCount > 1 }

\* the ten most recent of those
Listed(pid) ==
    { i \in Qualifying(pid) : Cardinality(NewerNodes(pid, i) \cap Qualifying(pid)) < 10 }

\* the members of a set of nodes, most recently mentioned first
NodesByRecency(pid, S) ==
    [ k \in 1..Cardinality(S) |->
        knowledge_nodes[CHOOSE i \in S : Cardinality(NewerNodes(pid, i) \cap S) = k - 1] ]

\* the key-entities clause a profile is to get, "" for none
EntityClause(pid) ==
    LET listed == NodesByRecency(pid, Listed(pid))
    IN  IF listed = << >> THEN ""
        ELSE "Key people/things mentioned: "
                 \o Join(", ", [ k \in 1..Len(listed) |->
                                   listed[k].entityName \o " (" \o listed[k].entityType \o ")" ])

\* the calls that returned a context built from the store
ContextBuilt == { q \in ContextReturned : reqs[q].context # CONTEXT_UNAVAILABLE }

\* C25: the key-entities clause lists the nodes with mentionCount > 1 among
\* the 20 most recently mentioned nodes of the profile, the first 10 of them
\* in recency order, each as 'name (type)'; no other node is listed, and
\* there is no clause when no node qualifies.
C25_KeyEntitiesClause ==
    \A q \in ContextBuilt :
        LET pid == reqs[q].profile._id
            clause == EntityClause(pid)
            context == reqs[q].context
        IN  /\ clause = "" => ~Contains(context, "Key people/things mentioned")
            /\ clause # "" =>
                  /\ Prefix(context, Len(clause)) = clause
                  /\ \/ Len(context) = Len(clause)
                     \/ SubSeq(context, Len(clause) + 1, Len(clause) + 3) = " | "
            /\ \A i \in 1..Len(knowledge_nodes) :
                  i \notin Listed(pid) =>
                      ~Contains(context, knowledge_nodes[i].entityName \o " (")

\* a call on a profile with 20 qualifying nodes in the window and one outside
\* it returned a clause of ten
C25_Witness ==
    \E q \in ContextBuilt :
        /\ Cardinality(Qualifying(reqs[q].profile._id)) = 20
        /\ Cardinality(Listed(reqs[q].profile._id)) = 10
        /\ \E i \in NodesOfProfile(reqs[q].profile._id) \ NodeWindow(reqs[q].profile._id) :
              knowledge_nodes[i].mentionCount > 1
        /\ Contains(reqs[q].context, "Key people/things mentioned: ")

\* the edges of a profile that were updated after edge e
NewerEdges(pid, e) ==
    { f \in 1..Len(knowledge_edges) :
        /\ knowledge_edges[f].profileId = pid
        /\ knowledge_edges[f].lastUpdated > knowledge_edges[e].lastUpdated }

\* the five most recently updated edges of a profile
FirstFiveEdges(pid) ==
    { e \in 1..Len(knowledge_edges) :
        knowledge_edges[e].profileId = pid /\ Cardinality(NewerEdges(pid, e)) < 5 }

\* the node of the window with a given id, as a set
WindowNode(pid, id) == { i \in NodeWindow(pid) : knowledge_nodes[i]._id = id }

\* those of the five with both ends in the window of nodes
Contributing(pid) ==
    { e \in FirstFiveEdges(pid) :
        /\ WindowNode(pid, knowledge_edges[e].sourceNodeId) # { }
        /\ WindowNode(pid, knowledge_edges[e].targetNodeId) # { } }

\* the recent-connections clause a profile is to get, "" for none
ConnectionClause(pid) ==
    LET S == Contributing(pid)
        edges == [ k \in 1..Cardinality(S) |->
                     knowledge_edges[CHOOSE e \in S :
                                         Cardinality(NewerEdges(pid, e) \cap S) = k - 1] ]
        name(id) == knowledge_nodes[CHOOSE i \in WindowNode(pid, id) : TRUE].entityName
    IN  IF edges = << >> THEN ""
        ELSE "Recent connections: "
                 \o Join("; ", [ k \in 1..Len(edges) |->
                                   name(edges[k].sourceNodeId) \o " "
                                       \o edges[k].relationshipType \o " "
                                       \o name(edges[k].targetNodeId) ])

\* C26: the recent-connections clause is made of the 5 most recently updated
\* edges of the profile only; such an edge gives 'source relationshipType
\* target' exactly when both its ends are among the 20 fetched nodes; an edge
\* with an end outside them is left out, the call returns all the same and
\* the rest of the context is as it would be without that edge.
C26_RecentConnectionsClause ==
    \A q \in ContextReturned :
        LET pid == reqs[q].profile._id
            clauses == SelectSeq(<< EntityClause(pid), ConnectionClause(pid) >>,
                                 LAMBDA c : c # "")
        IN  /\ reqs[q].context = CONTEXT_UNAVAILABLE => faults >= 1
            /\ reqs[q].context # CONTEXT_UNAVAILABLE =>
                  reqs[q].context =
                      IF NodesOfProfile(pid) = { } THEN "No previous context available."
                      ELSE IF clauses = << >> THEN "No specific context available."
                      ELSE Join(" | ", clauses)

\* a call returned a clause although one of the five edges has an end outside
\* the window and an edge beyond the five has both ends in it
C26_Witness ==
    \E q \in ContextBuilt :
        LET pid == reqs[q].profile._id
        IN  /\ Contains(reqs[q].context, "Recent connections: ")
            /\ FirstFiveEdges(pid) \ Contributing(pid) # { }
            /\ \E e \in 1..Len(knowledge_edges) :
                  /\ knowledge_edges[e].profileId = pid
                  /\ e \notin FirstFiveEdges(pid)
                  /\ WindowNode(pid, knowledge_edges[e].sourceNodeId) # { }
                  /\ WindowNode(pid, knowledge_edges[e].targetNodeId) # { }

\* ------------------------------------------------------------------------
\* The order of the steps of a turn
\* ------------------------------------------------------------------------

\* the writes to node id made by the runs of turns other than q
TouchesByOthers(q, id) ==
    { c \in 1..Len(upsert_calls) :
        /\ upsert_calls[c].id = id
        /\ upsert_calls[c].kind \in { "insert", "update" }
        /\ runs[upsert_calls[c].run].turn # q }

\* C27: in a turn the message is classified before a reply is chosen, the
\* context is retrieved before the model is called, and the extraction of
\* the turn is created only when the reply of the model is there; so the
\* nodes a turn fetched for its context hold nothing written by the
\* extraction of that turn's own message.
C27_TurnOrder ==
    /\ \A q \in Turns :
          /\ reqs[q].ai_response_text # NoneValue => reqs[q].crisis_check # NotCalled
          /\ reqs[q].llm_calls > 0 => reqs[q].context # NoneValue
          /\ reqs[q].context # NoneValue => reqs[q].crisis_check # NotCalled
          /\ \A i \in 1..Len(reqs[q].recent_nodes) :
                reqs[q].recent_nodes[i].mentionCount
                    <= Cardinality(TouchesByOthers(q, reqs[q].recent_nodes[i]._id))
    /\ \A r \in 1..Len(runs) :
          LET q == runs[r].turn
          IN  /\ q \in Turns
              /\ reqs[q].llm_calls = 1
              /\ reqs[q].context # NoneValue
              /\ reqs[q].ai_text \in AI_REPLIES
              /\ reqs[q].pc \in { "sm_push", "sm_refetch", "done" }

\* the second of two turns about Sarah has returned its reply while its own
\* run has not started; it fetched the node the run of the first turn had
\* stored
C27_Witness ==
    \E q \in Answered, r \in 1..Len(runs) :
        /\ runs[r].turn = q
        /\ runs[r].pc = "start"
        /\ Len(reqs[q].recent_nodes) = 1
        /\ reqs[q].recent_nodes[1].entityName = "Sarah"
        /\ reqs[q].recent_nodes[1].mentionCount = 1

\* ------------------------------------------------------------------------
\* The profile as a singleton
\* ------------------------------------------------------------------------

\* the requests that have got a profile from get_or_create_profile
GotProfile == { q \in 1..Len(reqs) : reqs[q].profile._id # 0 }

\* there is at most one profile, and it is the one every request has got
OneProfile ==
    /\ Len(profiles) <= 1
    /\ \A q \in GotProfile : reqs[q].profile._id = profiles[1]._id

\* a step that adds a profile adds one with zeroed counters and no
\* lastJournalDate, and leaves the identity of those there are
CreatedZeroed ==
    /\ Len(profiles') >= Len(profiles)
    /\ \A i \in 1..Len(profiles) : profiles'[i]._id = profiles[i]._id
    /\ \A i \in (Len(profiles) + 1)..Len(profiles') :
          /\ profiles'[i].currentStreak = 0
          /\ profiles'[i].longestStreak = 0
          /\ profiles'[i].totalJournalDays = 0
          /\ profiles'[i].lastJournalDate = NoneValue

\* C28: over every interleaving of requests that get or create the profile,
\* concurrent first accesses included, the profile is created at most once,
\* with currentStreak, longestStreak and totalJournalDays 0 and no
\* lastJournalDate, and every access returns that one record.
C28_ProfileSingleton ==
    /\ []OneProfile
    /\ [][CreatedZeroed]_vars

\* ------------------------------------------------------------------------
\* The order of the three counters
\* ------------------------------------------------------------------------

\* the journal creations whose update_streak wrote the profile
StreakMutations ==
    { q \in 1..Len(reqs) : reqs[q].kind = "create_journal" /\ reqs[q].ret = "us_return" }

\* C29: with journal creations and profile reads handled one after the other
\* from the zeroed profile, 0 <= currentStreak <= longestStreak <=
\* totalJournalDays at every moment, and currentStreak >= 1 right after a
\* journal creation that wrote the profile.
C29_CountersOrdered ==
    /\ \A i \in 1..Len(profiles) :
          /\ 0 <= profiles[i].currentStreak
          /\ profiles[i].currentStreak <= profiles[i].longestStreak
          /\ profiles[i].longestStreak <= profiles[i].totalJournalDays
    /\ \A q \in StreakMutations :
          /\ ~ReqFinished(q) => \A i \in 1..Len(profiles) : profiles[i].currentStreak >= 1
          /\ reqs[q].us = "returned" => reqs[q].returned.currentStreak >= 1

\* after two consecutive days and a later one the creation returned a
\* profile with currentStreak 1, longestStreak 2 and totalJournalDays 3
C29_Witness ==
    \E q \in StreakMutations :
        /\ reqs[q].us = "returned"
        /\ reqs[q].returned.currentStreak = 1
        /\ reqs[q].returned.longestStreak = 2
        /\ reqs[q].returned.totalJournalDays = 3

\* ------------------------------------------------------------------------
\* Concurrent upserts: what the race can and cannot do
\* ------------------------------------------------------------------------

RECURSIVE SumOfMentions(_)
\* the sum of mentionCount over a set of nodes of the store
SumOfMentions(S) ==
    IF S = { } THEN 0
    ELSE LET i == CHOOSE j \in S : TRUE
         IN  knowledge_nodes[i].mentionCount + SumOfMentions(S \ { i })

\* the calls for a key whose insert or update has been applied
WritesFor(key) ==
    { c \in 1..Len(upsert_calls) :
        upsert_calls[c].key = key /\ upsert_calls[c].kind \in { "insert", "update" } }

\* the calls for a key that returned a node
ReturnedNodeFor(key) ==
    { c \in 1..Len(upsert_calls) :
        upsert_calls[c].key = key /\ upsert_calls[c].returned = "node" }

\* every call for the key has returned, none with an error after its write
Settled(key) ==
    \A c \in 1..Len(upsert_calls) :
        upsert_calls[c].key = key =>
            /\ upsert_calls[c].returned # "pending"
            /\ upsert_calls[c].returned = "None" => upsert_calls[c].kind = "none"

\* the mentions of a key add up to the writes applied for it, which are the
\* calls that returned a node once the calls have returned
MentionsAddUp ==
    /\ \A key \in CalledKeys :
          /\ SumOfMentions(NodesFor(key)) = Cardinality(WritesFor(key))
          /\ ReturnedNodeFor(key) \subseteq WritesFor(key)
          /\ Settled(key) => SumOfMentions(NodesFor(key)) = Cardinality(ReturnedNodeFor(key))
    /\ \A i \in 1..Len(knowledge_nodes) :
          /\ knowledge_nodes[i].mentionCount >= 1
          /\ NodeKey(knowledge_nodes[i]) \in CalledKeys

\* a step removes no node, lowers no mentionCount, and raises one by 1 only
\* together with the write of lastMentioned of the same call
NodesOnlyGrow ==
    /\ Len(knowledge_nodes') >= Len(knowledge_nodes)
    /\ \A i \in 1..Len(knowledge_nodes) :
          LET old == knowledge_nodes[i]
              new == knowledge_nodes'[i]
          IN  /\ new._id = old._id
              /\ NodeKey(new) = NodeKey(old)
              /\ new.mentionCount >= old.mentionCount
              /\ new.mentionCount > old.mentionCount =>
                    /\ new.mentionCount = old.mentionCount + 1
                    /\ \E c \in 1..Len(upsert_calls) :
                          /\ upsert_calls[c].kind = "none"
                          /\ upsert_calls'[c].kind = "update"
                          /\ upsert_calls'[c].id = old._id
                          /\ new.lastMentioned = upsert_calls'[c].at

\* C30: however concurrent calls of store_or_update_node interleave, the
\* worst that happens is a second node for a key: the mentionCounts of the
\* nodes of a key add up to the writes applied for that key, which are the
\* calls that returned a node once every call has returned and none lost
\* its re-read after the insert; every node has mentionCount >= 1, no node
\* is removed, no mentionCount goes down, and an increment comes with the
\* write of lastMentioned.
C30_RaceOnlyDuplicates ==
    /\ []MentionsAddUp
    /\ [][NodesOnlyGrow]_vars

\* two concurrent runs on 'Sarah met Sarah' left two nodes for Sarah whose
\* mentionCounts add up to the four calls, all of which returned a node
C30_Witness ==
    \E key \in CalledKeys :
        /\ Cardinality(NodesFor(key)) = 2
        /\ SumOfMentions(NodesFor(key)) = 4
        /\ Cardinality(ReturnedNodeFor(key)) = 4
        /\ faults = 0

=============================================================================
